---- MODULE Spec2Model ----
(***************************************************************************)
(* Model of the synchronisation pipeline of core-rs-albatross:             *)
(*   SyncQueue   (consensus/src/sync/sync_queue.rs)                        *)
(*   SyncCluster (consensus-albatross/src/sync/history.rs)                 *)
(*   HistorySync (consensus-albatross/src/sync/history.rs)                 *)
(*   Mempool     (mempool/src/mempool.rs)                                  *)
(***************************************************************************)
EXTENDS Integers, Sequences, FiniteSets, TLC

\* ------------------------------------------------------------- bounds
\* Spec (fixed peer set): ids ever enqueued (constructor plus add_ids), and
\* the largest desired_pending_size tried.
MaxIds == 3
MaxWindow == 3
\* Peer ids of the network; also the longest peer list.
MaxPeers == 2
\* SpecChurn (peers join, leave and die): ids, window and peer events.
ChurnIds == 2
ChurnWindow == 2
MaxPeerEvents == 1
\* SpecRetry: the ids, the window and the peers of the queue.
RetryIds == 2
RetryWindow == 2
RetryPeers == 3
\* SpecCluster: epochs of the cluster, peers, history chunks of all its epochs
\* together, and the largest EPOCH_LENGTH and epoch_offset tried.
ClusterEpochs == 2
ClusterPeers == 1
MaxChunks == 2
MaxEpochLength == 2
MaxEpochOffset == 1
\* SpecSplit: epochs of the cluster (more than NUM_PENDING_EPOCHS), history
\* chunks of all its epochs together, and the calls of split_off.
SplitEpochs == 6
SplitChunks == 2
MaxSplits == 1
\* SpecSync (HistorySync): the EpochIds responses received, the longest id
\* list of one, the largest offset of one, and the forks of the chain.
MaxResponses == 2
MaxSyncIds == 2
MaxSyncOffset == 2
MaxForks == 2
\* SpecClustering: the responses received and the longest id list of one.
ClusteringResponses == 2
ClusteringIds == 3
\* SpecFlood: the responses received beyond MAX_CLUSTERS.
FloodExcess == 2
\* SpecMempool: the transactions the mempool holds at most, the senders, the
\* largest max_bytes of get_transactions_for_block, the largest block number
\* and the largest balance of an account.
MaxPool == 2
MaxSenders == 2
MaxBytes == 4
MaxHeight == 2
MaxBalance == 4
\* SpecBlock: the transactions the mempool holds at most.
BlockPool == 3
\* SpecStaking: the transactions the mempool holds at most.
StakingPool == 3
\* SpecAging: the transactions the mempool holds at most.
AgingPool == 3
\* SpecAdopted: the transactions the mempool holds at most.
AdoptedPool == 3
\* SpecReorg: the transactions the mempool holds at most.
ReorgPool == 2
\* SpecBalance: the transactions the mempool holds at most.
BalancePool == 2
\* SpecLocks: the tasks that call the mempool concurrently and the calls they
\* make in all.
MaxTasks == 2
MaxCalls == 3
\* SpecExecutor: the calls of the executor's lifecycle made in all.
MaxLifecycleCalls == 4
\* SpecNetwork: the dials and the calls of Peer::close made in all.
MaxDials == 3
MaxCloses == 3

PeerIds == 1..MaxPeers

\* The addresses that send basic transactions, and the staking contract's.
Senders == 1..MaxSenders
StakingAddress == 0
\* Blockchain::get_account's None: no balance.
NoAccount == -1
\* policy::TRANSACTION_VALIDITY_WINDOW, in blocks.
TRANSACTION_VALIDITY_WINDOW == 2
\* get_next_peer's None: no peer id.
NoPeer == 0

\* ------------------------------------------------------------- state
VARIABLES
    sq,          \* the SyncQueue (a record of its fields)
    alive,       \* peer ids whose ConsensusAgent is alive (Weak::upgrade succeeds)
    emitted,     \* history: the items poll_next has yielded, in order
    returned,    \* what poll_next returned, if the latest step was a poll_next; else "-"
    fails,       \* history: <<index, peer id>> of every request that resolved to None
    peer_events, \* number of add_peer, remove_peer and peer deaths so far
    cluster,          \* the SyncCluster (a record of its fields)
    epoch_length,     \* policy::EPOCH_LENGTH of the deployment
    chain,            \* the peers' chain: history_len of the epoch of each epoch id
    cluster_emitted,  \* history: the items SyncCluster::poll_next has yielded
    cluster_returned, \* what SyncCluster::poll_next returned, if it was the latest step
    panicked,         \* SyncCluster::poll_next has panicked
    sync_clusters,    \* HistorySync::sync_clusters, the best cluster last
    epoch_id_stream,  \* HistorySync::epoch_ids: the EpochIds the stream holds ready
    rejected,         \* the epoch ids whose epoch the blockchain refuses
    pushed,           \* history: the calls of push_history_sync, in order
    evicted,          \* history: the clusters HistorySync::poll popped, in order
    sync_returned,    \* what HistorySync::poll returned last; "-" before the first poll
    responses,        \* number of EpochIds responses received so far
    mempool,          \* the MempoolState (a record of its fields)
    mempool_op,       \* the latest operation on the mempool and what it returned
    locks,            \* the RwLocks of Mempool: blockchain, state and filter
    tasks,            \* the position of each task inside its call of the Mempool
    calls,            \* number of calls of the Mempool started so far
    executor,         \* Mempool::executor_handle, the executors spawned, the network
    network           \* two libp2p Networks and the connection between them

qvars == <<sq, emitted, returned, fails, peer_events>>
cvars == <<cluster, epoch_length, chain, cluster_emitted, cluster_returned, panicked>>
hvars == <<sync_clusters, epoch_id_stream, rejected, pushed, evicted, sync_returned,
          responses>>
lvars == <<locks, tasks, calls, executor, network>>
mvars == <<mempool, mempool_op, lvars>>
vars == <<qvars, alive, cvars, hvars, mvars>>

\* ------------------------------------------------------------- helpers
Range(s) == {s[i] : i \in DOMAIN s}

Min(a, b) == IF a < b THEN a ELSE b

\* usize::saturating_sub
saturating_sub(a, b) == IF a > b THEN a - b ELSE 0

\* Vec::remove(index), index counted from 0
VecRemove(s, index) == SubSeq(s, 1, index) \o SubSeq(s, index + 2, Len(s))

\* Vec::retain(|e| e != x)
RECURSIVE Retain(_, _)
Retain(s, x) ==
    IF s = <<>> THEN <<>>
    ELSE IF Head(s) = x THEN Retain(Tail(s), x)
         ELSE <<Head(s)>> \o Retain(Tail(s), x)

\* ------------------------------------------------------------- SyncQueue
\* FuturesUnordered is modelled by two fields: pending_futures holds the
\* requests that have not resolved, ready_to_run those that have, in the order
\* they resolved (the order FuturesUnordered::poll_next yields them).
\* OrderWrapper: id, data ("Pending" while the request future runs, then
\* "Some" or "None", its output), index, peer, num_tries, and agent, the peer
\* id whose ConsensusAgent request_fn was handed (the future is bound to it).
\* QueuedOutput: data (the output for an id, named by the id), index.

pending_len(q) == Cardinality(q.pending_futures) + Len(q.ready_to_run)

\* Mutant of new: the ids are queued in reverse order.
new_reversed(ids, peers, desired_pending_size) ==
    [ peers                |-> peers,
      desired_pending_size |-> desired_pending_size,
      ids_to_request       |-> [k \in DOMAIN ids |-> ids[Len(ids) + 1 - k]],
      pending_futures      |-> {},
      ready_to_run         |-> <<>>,
      queued_outputs       |-> {},
      next_incoming_index  |-> 0,
      next_outgoing_index  |-> 0,
      current_peer_index   |-> 0 ]

\* SyncQueue::new
new(ids, peers, desired_pending_size) ==
    [ peers                |-> peers,
      desired_pending_size |-> desired_pending_size,
      ids_to_request       |-> ids,
      pending_futures      |-> {},
      ready_to_run         |-> <<>>,
      queued_outputs       |-> {},
      next_incoming_index  |-> 0,
      next_outgoing_index  |-> 0,
      current_peer_index   |-> 0 ]

\* SyncQueue::get_next_peer: dead peers met on the way are removed.
RECURSIVE get_next_peer(_, _, _)
get_next_peer(q, start_index, live) ==
    IF Len(q.peers) = 0 THEN [q |-> q, peer |-> NoPeer]
    ELSE LET index == start_index % Len(q.peers) IN
         IF q.peers[index + 1] \in live
         THEN [q |-> q, peer |-> q.peers[index + 1]]
         ELSE get_next_peer([q EXCEPT !.peers = VecRemove(@, index)],
                            start_index, live)

\* Mutant of num_ids_to_request: the window forgets the parked outputs.
num_ids_to_request_no_queued(q) ==
    Min(Len(q.ids_to_request),
        saturating_sub(q.desired_pending_size, pending_len(q)))

\* The number of new futures try_push_futures asks for.
num_ids_to_request(q) ==
    Min(Len(q.ids_to_request),
        saturating_sub(q.desired_pending_size,
                       pending_len(q) + Cardinality(q.queued_outputs)))

\* The for loop of try_push_futures.
RECURSIVE push_futures(_, _, _)
push_futures(q, n, live) ==
    IF n = 0 THEN q
    ELSE LET r == get_next_peer(q, q.current_peer_index, live) IN
         IF r.peer = NoPeer THEN r.q
         ELSE LET q1 == r.q
                  wrapper == [ id        |-> Head(q1.ids_to_request),
                               data      |-> "Pending",
                               index     |-> q1.next_incoming_index,
                               peer      |-> q1.current_peer_index,
                               num_tries |-> 1,
                               agent     |-> r.peer ]
              IN push_futures(
                     [q1 EXCEPT !.ids_to_request = Tail(@),
                                !.next_incoming_index = @ + 1,
                                !.current_peer_index = (@ + 1) % Len(q1.peers),
                                !.pending_futures = @ \cup {wrapper}],
                     n - 1, live)

\* The for loop of try_push_futures panics: pop_front().unwrap() finds
\* ids_to_request empty, or the remainder that advances current_peer_index
\* is taken modulo peers.len() = 0.
RECURSIVE push_panics(_, _, _)
push_panics(q, n, live) ==
    IF n = 0 THEN FALSE
    ELSE LET r == get_next_peer(q, q.current_peer_index, live) IN
         IF r.peer = NoPeer THEN FALSE
         ELSE \/ r.q.ids_to_request = <<>>
              \/ Len(r.q.peers) = 0
              \/ push_panics(push_futures(q, 1, live), n - 1, live)

\* SyncQueue::try_push_futures
try_push_futures(q, live) == push_futures(q, num_ids_to_request(q), live)

\* try_push_futures panics.
try_push_panics(q, live) == push_panics(q, num_ids_to_request(q), live)

\* BinaryHeap::peek on queued_outputs: the entry with the smallest index.
peek(q) == CHOOSE o \in q.queued_outputs :
               \A p \in q.queued_outputs : o.index <= p.index

Item(kind, id, index) == [kind |-> kind, id |-> id, index |-> index]
NoItem(kind) == [kind |-> kind, id |-> 0, index |-> 0]

RECURSIVE poll_loop(_, _)

\* Mutant of on_output: a success is delivered as it arrives, never parked.
on_output_unordered(q, result, live) ==
    [q |-> [q EXCEPT !.next_outgoing_index = @ + 1],
     out |-> Item("Ok", result.id, result.index)]

\* The Some(output) arm of the loop: deliver or park.
on_output(q, result, live) ==
    IF result.index = q.next_outgoing_index
    THEN [q |-> [q EXCEPT !.next_outgoing_index = @ + 1],
          out |-> Item("Ok", result.id, result.index)]
    ELSE poll_loop([q EXCEPT !.queued_outputs =
                       @ \cup {[data |-> result.id, index |-> result.index]}],
                   live)

\* Mutant of on_failure: the first failure is final, no other peer is asked.
on_failure_no_retry(q, result, live) ==
    [q |-> q, out |-> Item("Err", result.id, result.index)]

\* Mutant of on_failure: the tries are not compared with the number of peers
\* before the next peer is computed.
on_failure_unchecked(q, result, live) ==
    IF Len(q.peers) = 0
    THEN [q |-> q, out |-> NoItem("Panic")]
    ELSE LET next_peer == (result.peer + 1) % Len(q.peers)
             r == get_next_peer(q, next_peer, live)
         IN IF r.peer = NoPeer
            THEN [q |-> r.q, out |-> Item("Err", result.id, result.index)]
            ELSE LET wrapper == [ id        |-> result.id,
                                  data      |-> "Pending",
                                  index     |-> result.index,
                                  peer      |-> next_peer,
                                  num_tries |-> result.num_tries + 1,
                                  agent     |-> r.peer ]
                 IN poll_loop([r.q EXCEPT !.pending_futures = @ \cup {wrapper}],
                              live)

\* The None arm of the loop: give up or re-request from the next peer. The
\* remainder modulo peers.len() = 0 panics.
on_failure(q, result, live) ==
    IF result.num_tries >= Len(q.peers)
    THEN [q |-> q, out |-> Item("Err", result.id, result.index)]
    ELSE IF Len(q.peers) = 0
    THEN [q |-> q, out |-> NoItem("Panic")]
    ELSE LET next_peer == (result.peer + 1) % Len(q.peers)
             r == get_next_peer(q, next_peer, live)
         IN IF r.peer = NoPeer
            THEN [q |-> r.q, out |-> Item("Err", result.id, result.index)]
            ELSE LET wrapper == [ id        |-> result.id,
                                  data      |-> "Pending",
                                  index     |-> result.index,
                                  peer      |-> next_peer,
                                  num_tries |-> result.num_tries + 1,
                                  agent     |-> r.peer ]
                 IN poll_loop([r.q EXCEPT !.pending_futures = @ \cup {wrapper}],
                              live)

\* The loop of poll_next over pending_futures.poll_next_unpin.
poll_loop(q, live) ==
    IF q.ready_to_run /= <<>>
    THEN LET result == Head(q.ready_to_run)
             q1 == [q EXCEPT !.ready_to_run = Tail(@)]
         IN IF result.data = "Some" THEN on_output(q1, result, live)
            ELSE on_failure(q1, result, live)
    ELSE IF q.pending_futures /= {}
    THEN [q |-> q, out |-> NoItem("Pending")]
    ELSE IF q.ids_to_request = <<>> \/ q.peers = <<>>
    THEN [q |-> q, out |-> NoItem("None")]
    ELSE IF try_push_panics(q, live)
    THEN [q |-> q, out |-> NoItem("Panic")]
    ELSE [q |-> try_push_futures(q, live), out |-> NoItem("Pending")]

\* SyncQueue::poll_next
poll_next(q, live) ==
    LET q1 == try_push_futures(q, live) IN
    IF try_push_panics(q, live)
    THEN [q |-> q, out |-> NoItem("Panic")]
    ELSE IF /\ q1.queued_outputs /= {}
            /\ peek(q1).index = q1.next_outgoing_index
    THEN [q |-> [q1 EXCEPT !.next_outgoing_index = @ + 1,
                           !.queued_outputs = @ \ {peek(q1)}],
          out |-> Item("Ok", peek(q1).data, peek(q1).index)]
    ELSE poll_loop(q1, live)

\* SyncQueue::add_peer
add_peer(q, peer_id) == [q EXCEPT !.peers = Append(@, peer_id)]

\* SyncQueue::remove_peer
remove_peer(q, peer_id) == [q EXCEPT !.peers = Retain(@, peer_id)]

\* SyncQueue::add_ids
add_ids(q, ids) == [q EXCEPT !.ids_to_request = @ \o ids]

\* Mutant of truncate_ids: len counts from the head of ids_to_request.
truncate_ids_from_head(q, l) ==
    [q EXCEPT !.ids_to_request = SubSeq(@, 1, Min(Len(@), l))]

\* SyncQueue::truncate_ids
truncate_ids(q, l) ==
    [q EXCEPT !.ids_to_request =
        SubSeq(@, 1, Min(Len(@), saturating_sub(l, q.next_incoming_index)))]

\* SyncQueue::len
len(q) == Len(q.ids_to_request) + pending_len(q) + Cardinality(q.queued_outputs)

\* The number of ids the queue was ever given; the k-th id given (k from 0)
\* is named k + 1 and gets index k.
enqueued(q) == q.next_incoming_index + Len(q.ids_to_request)

FreshIds(from, n) == [i \in 1..n |-> from + i]

\* A request resolves: request_fn's future yields Some(output) or None. A
\* request to a dead agent can only fail.
resolve(q, w, data) ==
    [q EXCEPT !.pending_futures = @ \ {w},
              !.ready_to_run = Append(@, [w EXCEPT !.data = data])]




\* ------------------------------------------------------------- SyncCluster
\* history_store::CHUNK_SIZE, the number of history entries of a chunk.
CHUNK_SIZE == 2
NUM_PENDING_EPOCHS == 5
NUM_PENDING_CHUNKS == 12

\* policy::epoch_at
epoch_at(block_number) == block_number \div epoch_length

\* Mutant of is_complete: an epoch counts as complete as soon as it holds any
\* history.
is_complete_any_history(pending_epoch) ==
    pending_epoch.history_len = 0 \/ pending_epoch.history /= <<>>

\* PendingEpoch::is_complete
is_complete(pending_epoch) == pending_epoch.history_len = Len(pending_epoch.history)

\* PendingEpoch::epoch_number
epoch_number(pending_epoch) == epoch_at(pending_epoch.block.block_number)

\* Epoch ids (block hashes) are numbers: the election block of epoch e on
\* fork f of the chain has the hash e + f * ForkStride.
ForkStride == MaxEpochOffset + ClusterEpochs + MaxSyncOffset + ClusteringIds

epoch_of(id) == id % ForkStride

hash_of(epoch, fork) == epoch + fork * ForkStride

\* The peers' answer to request_epoch(id): the election macro block of the
\* epoch the hash names (epoch ids are named by their epoch number), and the
\* length of its history.
request_epoch(id) ==
    [block |-> [block_number |-> epoch_of(id) * epoch_length, hash |-> id],
     history_len |-> chain[id]]

\* The peers' answer to request_history_chunk(id): a full chunk, its entries
\* named by the chunk id.
request_history_chunk(id) == [history |-> [k \in 1..CHUNK_SIZE |-> id]]

\* SyncCluster::new
cluster_new(epoch_ids, epoch_offset, peers) ==
    [ epoch_ids      |-> epoch_ids,
      epoch_offset   |-> epoch_offset,
      epoch_queue    |-> new(epoch_ids, peers, NUM_PENDING_EPOCHS),
      history_queue  |-> new(<<>>, peers, NUM_PENDING_CHUNKS),
      pending_epochs |-> <<>> ]

\* Mutant of on_epoch_received: the new epoch is pushed at the front of
\* pending_epochs.
on_epoch_received_push_front(c, epoch) ==
    LET block_number == epoch.block.block_number
        history_chunk_ids ==
            [i \in 1..(epoch.history_len \div CHUNK_SIZE) |-> <<block_number, i - 1>>]
    IN [c EXCEPT !.history_queue = add_ids(@, history_chunk_ids),
                 !.pending_epochs = <<[ block       |-> epoch.block,
                                        history_len |-> epoch.history_len,
                                        history     |-> <<>> ]>> \o @]

\* SyncCluster::on_epoch_received
on_epoch_received(c, epoch) ==
    LET block_number == epoch.block.block_number
        history_chunk_ids ==
            [i \in 1..(epoch.history_len \div CHUNK_SIZE) |-> <<block_number, i - 1>>]
    IN [c EXCEPT !.history_queue = add_ids(@, history_chunk_ids),
                 !.pending_epochs = Append(@, [ block       |-> epoch.block,
                                                history_len |-> epoch.history_len,
                                                history     |-> <<>> ])]

\* The index on_history_chunk_received computes into pending_epochs.
epoch_index(c, chunk_epoch_number) ==
    chunk_epoch_number - epoch_number(c.pending_epochs[1])

\* on_history_chunk_received panics: pending_epochs[0] or
\* pending_epochs[epoch_index] is out of bounds (a u32 underflow of the
\* subtraction panics or wraps to an index out of bounds).
chunk_panics(c, chunk_epoch_number) ==
    \/ c.pending_epochs = <<>>
    \/ epoch_index(c, chunk_epoch_number) < 0
    \/ epoch_index(c, chunk_epoch_number) >= Len(c.pending_epochs)

\* SyncCluster::on_history_chunk_received
on_history_chunk_received(c, chunk_epoch_number, history_chunk) ==
    [c EXCEPT !.pending_epochs[epoch_index(c, chunk_epoch_number) + 1].history =
                  @ \o history_chunk.history]

ClusterItem(kind, epoch) == [kind |-> kind, epoch |-> epoch]
NoEpoch == [block |-> [block_number |-> 0, hash |-> 0], history |-> <<>>]

\* Epoch { block, history } of a pending epoch.
Epoch(pending_epoch) ==
    [block |-> pending_epoch.block, history |-> pending_epoch.history]

\* The first loop of SyncCluster::poll_next: drain the epoch queue. r is what
\* epoch_queue.poll_next returned.
RECURSIVE poll_epochs(_, _)
on_epoch_result(c, r, live) ==
    IF r.out.kind = "Ok"
    THEN poll_epochs(on_epoch_received([c EXCEPT !.epoch_queue = r.q],
                                       request_epoch(r.out.id)),
                     live)
    ELSE [c |-> [c EXCEPT !.epoch_queue = r.q], err |-> r.out.kind = "Err"]

poll_epochs(c, live) == on_epoch_result(c, poll_next(c.epoch_queue, live), live)

\* The second loop of SyncCluster::poll_next: drain the history queue, emit
\* the head epoch once a chunk has completed it. r is what
\* history_queue.poll_next returned.
RECURSIVE poll_chunks(_, _)

\* "Emit finished epochs", after on_history_chunk_received.
emit_finished(c, live) ==
    IF is_complete(c.pending_epochs[1])
    THEN [c |-> [c EXCEPT !.pending_epochs = Tail(@)],
          out |-> ClusterItem("Ok", Epoch(c.pending_epochs[1]))]
    ELSE poll_chunks(c, live)

on_chunk_result(c, r, live) ==
    IF r.out.kind = "Ok"
    THEN IF chunk_panics(c, r.out.id[1])
         THEN [c |-> c, out |-> ClusterItem("Panic", NoEpoch)]
         ELSE emit_finished(
                  on_history_chunk_received([c EXCEPT !.history_queue = r.q],
                      r.out.id[1], request_history_chunk(r.out.id)),
                  live)
    ELSE IF r.out.kind = "Err"
    THEN [c |-> [c EXCEPT !.history_queue = r.q], out |-> ClusterItem("Err", NoEpoch)]
    ELSE IF len(c.epoch_queue) = 0 /\ c.pending_epochs = <<>>
    THEN [c |-> [c EXCEPT !.history_queue = r.q], out |-> ClusterItem("None", NoEpoch)]
    ELSE [c |-> [c EXCEPT !.history_queue = r.q], out |-> ClusterItem("Pending", NoEpoch)]

poll_chunks(c, live) == on_chunk_result(c, poll_next(c.history_queue, live), live)

\* The rest of SyncCluster::poll_next, after the epoch loop returned e.
after_epochs(e, live) ==
    IF e.err THEN [c |-> e.c, out |-> ClusterItem("Err", NoEpoch)]
    ELSE poll_chunks(e.c, live)

\* SyncCluster::poll_next
cluster_poll_next(c, live) ==
    IF Len(c.pending_epochs) < NUM_PENDING_EPOCHS
    THEN after_epochs(poll_epochs(c, live), live)
    ELSE poll_chunks(c, live)

\* ------------------------------------------------------------- HistorySync
\* SyncQueue::num_peers
num_peers(q) == Len(q.peers)

\* SyncCluster::add_peer
cluster_add_peer(c, peer) ==
    [c EXCEPT !.epoch_queue = add_peer(@, peer),
              !.history_queue = add_peer(@, peer)]

\* Mutant of split_off: the cluster returned keeps the offset of the original.
split_off_same_offset(c, at) ==
    [c     |-> [c EXCEPT !.epoch_ids = SubSeq(@, 1, at),
                         !.epoch_queue = truncate_ids(@, at)],
     split |-> cluster_new(SubSeq(c.epoch_ids, at + 1, Len(c.epoch_ids)),
                           c.epoch_offset,
                           c.epoch_queue.peers)]

\* Mutant of split_off: the epoch queue of the original keeps its ids.
split_off_keeps_queue(c, at) ==
    [c     |-> [c EXCEPT !.epoch_ids = SubSeq(@, 1, at)],
     split |-> cluster_new(SubSeq(c.epoch_ids, at + 1, Len(c.epoch_ids)),
                           c.epoch_offset + at,
                           c.epoch_queue.peers)]

\* SyncCluster::split_off: c is the cluster afterwards, split the cluster
\* returned.
split_off(c, at) ==
    [c     |-> [c EXCEPT !.epoch_ids = SubSeq(@, 1, at),
                         !.epoch_queue = truncate_ids(@, at)],
     split |-> cluster_new(SubSeq(c.epoch_ids, at + 1, Len(c.epoch_ids)),
                           c.epoch_offset + at,
                           c.epoch_queue.peers)]

\* Ordering as a number: Less -1, Equal 0, Greater 1.
int_cmp(a, b) == IF a < b THEN -1 ELSE IF a > b THEN 1 ELSE 0

\* Ordering::then_with
then_with(ordering, next) == IF ordering /= 0 THEN ordering ELSE next

\* Ord for Vec<Blake2bHash>: lexicographic.
RECURSIVE vec_cmp(_, _)
vec_cmp(a, b) ==
    IF a = <<>> /\ b = <<>> THEN 0
    ELSE IF a = <<>> THEN -1
    ELSE IF b = <<>> THEN 1
    ELSE then_with(int_cmp(Head(a), Head(b)), vec_cmp(Tail(a), Tail(b)))

\* Mutant of cluster_cmp: the ordering is not reversed.
cluster_cmp_not_reversed(a, b) ==
    then_with(int_cmp(a.epoch_offset, b.epoch_offset),
    then_with(int_cmp(num_peers(b.epoch_queue), num_peers(a.epoch_queue)),
    then_with(int_cmp(Len(b.epoch_ids), Len(a.epoch_ids)),
              vec_cmp(a.epoch_ids, b.epoch_ids))))

\* Ord for SyncCluster
cluster_cmp(a, b) ==
    0 - then_with(int_cmp(a.epoch_offset, b.epoch_offset),
        then_with(int_cmp(num_peers(b.epoch_queue), num_peers(a.epoch_queue)),
        then_with(int_cmp(Len(b.epoch_ids), Len(a.epoch_ids)),
                  vec_cmp(a.epoch_ids, b.epoch_ids))))

\* sort_unstable: ascending under cluster_cmp (clusters that compare Equal
\* keep their order).
insert_sorted(s, c) ==
    LET greater == {k \in DOMAIN s : cluster_cmp(s[k], c) > 0}
        at == IF greater = {} THEN Len(s) + 1
              ELSE CHOOSE k \in greater : \A j \in greater : k <= j
    IN SubSeq(s, 1, at - 1) \o <<c>> \o SubSeq(s, at, Len(s))

RECURSIVE sort_unstable(_)
sort_unstable(s) ==
    IF s = <<>> THEN <<>>
    ELSE insert_sorted(sort_unstable(SubSeq(s, 1, Len(s) - 1)), s[Len(s)])

\* An EpochIds response.
EpochIds(ids, offset, sender) == [ids |-> ids, offset |-> offset, sender |-> sender]

\* cluster_epoch_ids: the given epoch ids and the cluster potentially overlap.
overlaps(c, e) ==
    /\ c.epoch_offset <= e.offset
    /\ c.epoch_offset + Len(c.epoch_ids) > e.offset

\* cluster_epoch_ids: the number of leading ids, of the l ids compared, on
\* which the cluster (from start_offset) and the response (from id_index)
\* agree.
match_until(c, e, start_offset, id_index, l) ==
    LET differ == {k \in 1..l : c.epoch_ids[start_offset + k] /= e.ids[id_index + k]}
    IN IF differ = {} THEN l
       ELSE (CHOOSE k \in differ : \A j \in differ : k <= j) - 1

\* The loop of cluster_epoch_ids over sync_clusters, from the i-th cluster on.
RECURSIVE cluster_loop(_, _, _, _, _)

\* A cluster that matched m > 0 of the l ids compared.
on_match(clusters, i, e, id_index, new_clusters, at, partial) ==
    cluster_loop(
        [clusters EXCEPT ![i] =
            cluster_add_peer(IF partial THEN split_off(@, at).c ELSE @, e.sender)],
        i + 1, e,
        id_index + (at - (e.offset - clusters[i].epoch_offset)),
        IF partial THEN Append(new_clusters, split_off(clusters[i], at).split)
                   ELSE new_clusters)

on_overlap(clusters, i, e, id_index, new_clusters, start_offset, l) ==
    IF match_until(clusters[i], e, start_offset, id_index, l) > 0
    THEN on_match(clusters, i, e, id_index, new_clusters,
                  start_offset + match_until(clusters[i], e, start_offset, id_index, l),
                  match_until(clusters[i], e, start_offset, id_index, l) < l)
    ELSE cluster_loop(clusters, i + 1, e, id_index, new_clusters)

cluster_loop(clusters, i, e, id_index, new_clusters) ==
    IF i > Len(clusters)
    THEN [clusters |-> clusters, id_index |-> id_index, new_clusters |-> new_clusters]
    ELSE IF overlaps(clusters[i], e)
    THEN on_overlap(clusters, i, e, id_index, new_clusters,
                    e.offset - clusters[i].epoch_offset,
                    Min(Len(clusters[i].epoch_ids) - (e.offset - clusters[i].epoch_offset),
                        Len(e.ids) - id_index))
    ELSE cluster_loop(clusters, i + 1, e, id_index, new_clusters)

\* cluster_epoch_ids after the loop returned r: the remaining ids become a
\* cluster of the sender alone; the clusters are sorted.
add_remaining(r, e) ==
    sort_unstable(
        r.clusters \o r.new_clusters \o
        (IF r.id_index < Len(e.ids)
         THEN <<cluster_new(SubSeq(e.ids, r.id_index + 1, Len(e.ids)),
                            e.offset + r.id_index, <<e.sender>>)>>
         ELSE <<>>))

\* HistorySync::cluster_epoch_ids
cluster_epoch_ids(clusters, e) ==
    add_remaining(cluster_loop(clusters, 1, e, 0, <<>>), e)

\* HistorySync::CONCURRENT_HASH_REQUESTS, HistorySync::MAX_CLUSTERS
CONCURRENT_HASH_REQUESTS == 10
MAX_CLUSTERS == 100

\* Blockchain::push_history_sync(...).ok(): the blockchain takes the epoch
\* unless it refuses its macro block.
push_history_sync(epoch) == epoch.block.hash \notin rejected

\* Mutant of pop: the first cluster is removed.
pop_front(s) == Tail(s)

\* Vec::pop
pop(s) == SubSeq(s, 1, Len(s) - 1)

\* The first loop of HistorySync::poll: every EpochIds the stream holds ready
\* is clustered.
RECURSIVE drain(_, _)
drain(clusters, stream) ==
    IF stream = <<>> THEN clusters
    ELSE drain(cluster_epoch_ids(clusters, Head(stream)), Tail(stream))

\* "Stop pulling in new epoch_ids if we hit a maximum a number of clusters"
pull_epoch_ids(clusters, stream) ==
    IF Len(clusters) < MAX_CLUSTERS THEN drain(clusters, stream) ELSE clusters

\* What is left in the stream after pull_epoch_ids.
stream_left(clusters, stream) ==
    IF Len(clusters) < MAX_CLUSTERS THEN <<>> ELSE stream

\* The entry of the history of pushes: the epoch, the blockchain's answer,
\* the cluster it came from and the number of evictions before it.
Pushed(c, epoch, evictions) ==
    [hash         |-> epoch.block.hash,
     epoch_number |-> epoch_at(epoch.block.block_number),
     ok           |-> push_history_sync(epoch),
     offset       |-> c.epoch_offset,
     first_id     |-> c.epoch_ids[1],
     epoch_ids    |-> c.epoch_ids,
     evictions    |-> evictions]

\* The entry of the history of evictions: the cluster popped and why.
Evicted(c, why) == [cluster |-> c, why |-> why]

\* The second loop of HistorySync::poll: poll the best cluster. h holds
\* sync_clusters and the histories; r is what best_cluster.poll_next returned.
RECURSIVE poll_best(_, _)

\* "Evict current best cluster and move to next one."
evict(h, c, why, live) ==
    poll_best([h EXCEPT !.sync_clusters = pop([@ EXCEPT ![Len(@)] = c]),
                        !.evicted = Append(@, Evicted(c, why))],
              live)

on_epoch_emitted(h, c, epoch, live) ==
    IF push_history_sync(epoch)
    THEN poll_best([h EXCEPT !.sync_clusters[Len(h.sync_clusters)] = c,
                             !.pushed = Append(@, Pushed(c, epoch, Len(h.evicted)))],
                   live)
    ELSE evict([h EXCEPT !.pushed = Append(@, Pushed(c, epoch, Len(h.evicted)))], c, "Rejected", live)

on_best_result(h, r, live) ==
    IF r.out.kind = "Pending"
    THEN [h |-> [h EXCEPT !.sync_clusters[Len(h.sync_clusters)] = r.c], out |-> "Pending"]
    ELSE IF r.out.kind = "Panic"
    THEN [h |-> h, out |-> "Panic"]
    ELSE IF r.out.kind = "Ok"
    THEN on_epoch_emitted(h, r.c, r.out.epoch, live)
    ELSE evict(h, r.c, r.out.kind, live)

poll_best(h, live) ==
    IF h.sync_clusters = <<>>
    THEN [h |-> h, out |-> "Ready"]
    ELSE on_best_result(h, cluster_poll_next(h.sync_clusters[Len(h.sync_clusters)], live),
                        live)

\* HistorySync::poll
sync_poll(clusters, stream, live) ==
    poll_best([sync_clusters |-> pull_epoch_ids(clusters, stream),
               pushed        |-> pushed,
               evicted       |-> evicted],
              live)

\* ------------------------------------------------------------- MempoolState
\* A transaction: what the Mempool reads of it. Its hash identifies it.
Transaction(hash, sender, value, fee, size, start, sender_type, recipient_type, data, signer) ==
    [hash |-> hash, sender |-> sender, value |-> value, fee |-> fee,
     serialized_size |-> size, validity_start_height |-> start,
     sender_type |-> sender_type, recipient_type |-> recipient_type,
     data |-> data, signer |-> signer]

\* Transaction::total_value
total_value(tx) == tx.value + tx.fee

\* Transaction::fee_per_byte, the quotient fee / serialized_size held as its
\* two terms; FeeWrapper orders the quotients.
fee_per_byte(tx) == <<tx.fee, tx.serialized_size>>

\* FeeWrapper::cmp: f64::total_cmp of two quotients of small integers.
fee_cmp(a, b) == int_cmp(a[1] * b[2], b[1] * a[2])

\* Transaction::is_valid_at
is_valid_at(tx, block_height) ==
    /\ block_height >= tx.validity_start_height
    /\ block_height < tx.validity_start_height + TRANSACTION_VALIDITY_WINDOW

\* HashMap and KeyedPriorityQueue: insert (push), remove.
map_insert(m, k, v) == [x \in DOMAIN m \cup {k} |-> IF x = k THEN v ELSE m[x]]
map_remove(m, k) == [x \in DOMAIN m \ {k} |-> m[x]]

\* MempoolState with nothing in it (Mempool::new).
MempoolState_new ==
    [transactions        |-> <<>>,
     transactions_by_fee |-> <<>>,
     transactions_by_age |-> <<>>,
     state_by_sender     |-> <<>>,
     outgoing_validators |-> {},
     outgoing_stakers    |-> {},
     creating_validators |-> {},
     creating_stakers    |-> {}]

\* MempoolState::contains
contains(s, hash) == hash \in DOMAIN s.transactions

\* The keys of a KeyedPriorityQueue whose priority no other key exceeds.
top_by_fee(q) == {k \in DOMAIN q : \A o \in DOMAIN q : fee_cmp(q[o], q[k]) <= 0}
top_by_age(q) == {k \in DOMAIN q : \A o \in DOMAIN q : q[o] <= q[k]}

\* The order of keys of equal priority in the heap, and the iteration order
\* of a HashSet, are not specified: tie says which end of the hash order
\* comes first.
first_of(keys, tie) ==
    IF tie THEN CHOOSE k \in keys : \A o \in keys : k <= o
    ELSE CHOOSE k \in keys : \A o \in keys : k >= o

\* peek_by_fee of a min-heap: a key of the least priority.
peek_lowest_fee(q, tie) ==
    first_of({k \in DOMAIN q : \A o \in DOMAIN q : fee_cmp(q[o], q[k]) >= 0}, tie)

\* KeyedPriorityQueue::peek, a max-heap: a key of the greatest priority.
peek_by_fee(q, tie) == first_of(top_by_fee(q), tie)
peek_by_age(q, tie) == first_of(top_by_age(q), tie)

\* assert!(set.insert(signer)) of put: the insertion, and whether it panics.
assert_insert(s, field, signer) ==
    [s |-> [s EXCEPT ![field] = @ \cup {signer}], panicked |-> signer \in s[field]]

\* assert_remove that leaves the signer in the set.
assert_remove_keeps_signer(s, field, signer) ==
    [s |-> s, panicked |-> signer \notin s[field]]

\* assert!(set.remove(signer)) of remove.
assert_remove(s, field, signer) ==
    [s |-> [s EXCEPT ![field] = @ \ {signer}], panicked |-> signer \notin s[field]]

\* The set an outgoing staking transaction's signer is kept in.
outgoing_set(tx) ==
    IF tx.data = "DeleteValidator" THEN "outgoing_validators" ELSE "outgoing_stakers"

\* The set a creation staking transaction's signer is kept in.
creating_set(tx) ==
    IF tx.data = "CreateValidator" THEN "creating_validators" ELSE "creating_stakers"

\* put, the incoming staking part.
put_incoming(s, tx) ==
    IF tx.recipient_type = "Staking" /\ tx.data \in {"CreateValidator", "CreateStaker"}
    THEN assert_insert(s, creating_set(tx), tx.signer)
    ELSE [s |-> s, panicked |-> FALSE]

\* put, the outgoing staking part and what follows it.
put_staking(s, tx) ==
    IF tx.sender_type = "Staking"
    THEN IF assert_insert(s, outgoing_set(tx), tx.signer).panicked
         THEN assert_insert(s, outgoing_set(tx), tx.signer)
         ELSE put_incoming(assert_insert(s, outgoing_set(tx), tx.signer).s, tx)
    ELSE put_incoming(s, tx)

\* put, the sender's pending state.
put_sender(state_by_sender, tx) ==
    IF tx.sender \notin DOMAIN state_by_sender
    THEN map_insert(state_by_sender, tx.sender,
                    [total |-> total_value(tx), txns |-> {tx.hash}])
    ELSE [state_by_sender EXCEPT ![tx.sender] =
              [total |-> @.total + total_value(tx), txns |-> @.txns \cup {tx.hash}]]

\* Mutant of put_inserted: the transaction is not pushed to transactions_by_age.
put_inserted_not_by_age(s, tx) ==
    [s EXCEPT !.transactions = map_insert(@, tx.hash, tx),
              !.transactions_by_fee = map_insert(@, tx.hash, fee_per_byte(tx)),
              !.state_by_sender = put_sender(@, tx)]

\* put, the insertions into transactions, the two queues and state_by_sender.
put_inserted(s, tx) ==
    [s EXCEPT !.transactions = map_insert(@, tx.hash, tx),
              !.transactions_by_fee = map_insert(@, tx.hash, fee_per_byte(tx)),
              !.transactions_by_age = map_insert(@, tx.hash, tx.validity_start_height),
              !.state_by_sender = put_sender(@, tx)]

\* What put and remove give: the state they leave, what they return (ok: true,
\* Some) and whether one of their assertions failed.
returned_unless_panicked(r) == [s |-> r.s, ok |-> ~r.panicked, panicked |-> r.panicked]

\* MempoolState::put
put(s, tx) ==
    IF contains(s, tx.hash)
    THEN [s |-> s, ok |-> FALSE, panicked |-> FALSE]
    ELSE returned_unless_panicked(put_staking(put_inserted(s, tx), tx))

\* remove, the incoming staking part.
remove_incoming(s, tx) ==
    IF tx.recipient_type = "Staking" /\ tx.data \in {"CreateValidator", "CreateStaker"}
    THEN assert_remove(s, creating_set(tx), tx.signer)
    ELSE [s |-> s, panicked |-> FALSE]

\* remove_staking that leaves the signer in its set.
remove_staking_keeps_signer(s, tx) == [s |-> s, panicked |-> FALSE]

\* remove, the outgoing staking part and what follows it.
remove_staking(s, tx) ==
    IF tx.sender_type = "Staking"
    THEN IF assert_remove(s, outgoing_set(tx), tx.signer).panicked
         THEN assert_remove(s, outgoing_set(tx), tx.signer)
         ELSE remove_incoming(assert_remove(s, outgoing_set(tx), tx.signer).s, tx)
    ELSE remove_incoming(s, tx)

\* remove_sender that leaves the total as it was.
remove_sender_keeps_total(state_by_sender, tx) ==
    IF state_by_sender[tx.sender].txns \ {tx.hash} = {}
    THEN map_remove(state_by_sender, tx.sender)
    ELSE [state_by_sender EXCEPT ![tx.sender] =
              [total |-> @.total, txns |-> @.txns \ {tx.hash}]]

\* remove, the sender's pending state.
remove_sender(state_by_sender, tx) ==
    IF state_by_sender[tx.sender].txns \ {tx.hash} = {}
    THEN map_remove(state_by_sender, tx.sender)
    ELSE [state_by_sender EXCEPT ![tx.sender] =
              [total |-> @.total - total_value(tx), txns |-> @.txns \ {tx.hash}]]

\* remove_found that leaves state_by_sender as it was.
remove_found_keeps_sender(s, tx) ==
    [s EXCEPT !.transactions = map_remove(@, tx.hash),
              !.transactions_by_age = map_remove(@, tx.hash),
              !.transactions_by_fee = map_remove(@, tx.hash)]

\* remove, the removals from transactions, the two queues and state_by_sender.
remove_found(s, tx) ==
    [s EXCEPT !.transactions = map_remove(@, tx.hash),
              !.transactions_by_age = map_remove(@, tx.hash),
              !.transactions_by_fee = map_remove(@, tx.hash),
              !.state_by_sender = remove_sender(@, tx)]

\* MempoolState::remove
remove(s, hash) ==
    IF ~contains(s, hash)
    THEN [s |-> s, ok |-> FALSE, panicked |-> FALSE]
    ELSE returned_unless_panicked(
             remove_staking(remove_found(s, s.transactions[hash]), s.transactions[hash]))

\* ------------------------------------------------------------- Mempool
\* What an operation of Mempool gives: the state, the transactions returned
\* and whether it panicked.
Done(s, tx_vec) == [s |-> s, tx_vec |-> tx_vec, panicked |-> FALSE]
Panicked(s, tx_vec) == [s |-> s, tx_vec |-> tx_vec, panicked |-> TRUE]

RECURSIVE fee_loop(_, _, _, _, _)

\* get_transactions_for_block: the transaction was removed and is pushed.
fee_removed(r, tx, size, max_bytes, tx_vec, tie) ==
    IF r.panicked THEN Panicked(r.s, tx_vec)
    ELSE fee_loop(r.s, size, max_bytes, Append(tx_vec, tx), tie)

\* get_transactions_for_block: the size check of the highest paying transaction.
fee_step(s, tx, size, max_bytes, tx_vec, tie) ==
    IF size + tx.serialized_size > max_bytes
    THEN Done(s, tx_vec)
    ELSE fee_removed(remove(s, tx.hash), tx, size + tx.serialized_size, max_bytes,
                     tx_vec, tie)

\* get_transactions_for_block: its loop.
fee_loop(s, size, max_bytes, tx_vec, tie) ==
    IF DOMAIN s.transactions_by_fee = {}
    THEN Done(s, tx_vec)
    ELSE fee_step(s, s.transactions[peek_by_fee(s.transactions_by_fee, tie)], size,
                  max_bytes, tx_vec, tie)

\* Mempool::get_transactions_for_block
get_transactions_for_block(s, max_bytes, tie) ==
    IF DOMAIN s.transactions = {}
    THEN Done(s, <<>>)
    ELSE fee_loop(s, 0, max_bytes, <<>>, tie)

RECURSIVE age_loop(_, _, _)

\* mempool_update, aging: the transaction was removed.
age_removed(r, block_height, tie) ==
    IF r.panicked THEN Panicked(r.s, <<>>) ELSE age_loop(r.s, block_height, tie)

\* mempool_update, aging: the validity check of the transaction peeked.
age_step(s, tx, block_height, tie) ==
    IF is_valid_at(tx, block_height)
    THEN Done(s, <<>>)
    ELSE age_removed(remove(s, tx.hash), block_height, tie)

\* mempool_update, aging: its loop.
age_loop(s, block_height, tie) ==
    IF DOMAIN s.transactions_by_age = {}
    THEN Done(s, <<>>)
    ELSE age_step(s, s.transactions[peek_by_age(s.transactions_by_age, tie)],
                  block_height, tie)

\* HashSet::iter: the elements in one of the orders of the set.
RECURSIVE iter(_, _)
iter(set, tie) ==
    IF set = {} THEN <<>>
    ELSE <<first_of(set, tie)>> \o iter(set \ {first_of(set, tie)}, tie)

\* txs_to_remove that keeps no hash.
txs_to_remove_none(s, sender_txs, new_total, sender_balance) == <<>>

\* mempool_update, adopted: the filter that keeps the hashes to remove.
RECURSIVE txs_to_remove(_, _, _, _)
txs_to_remove(s, sender_txs, new_total, sender_balance) ==
    IF sender_txs = <<>> THEN <<>>
    ELSE IF total_value(s.transactions[Head(sender_txs)]) + new_total <= sender_balance
         THEN txs_to_remove(s, Tail(sender_txs),
                            new_total + total_value(s.transactions[Head(sender_txs)]),
                            sender_balance)
         ELSE <<Head(sender_txs)>>
              \o txs_to_remove(s, Tail(sender_txs), new_total, sender_balance)

\* mempool_update, adopted: the removal of the hashes kept by the filter.
RECURSIVE remove_all(_, _)
remove_rest(r, hashes) ==
    IF r.panicked THEN Panicked(r.s, <<>>) ELSE remove_all(r.s, hashes)
remove_all(s, hashes) ==
    IF hashes = <<>> THEN Done(s, <<>>)
    ELSE remove_rest(remove(s, Head(hashes)), Tail(hashes))

\* mempool_update, adopted: the account of the sender; one of balance zero
\* stands in for a missing one if the transaction moves no value.
sender_account(blockchain, tx) ==
    IF blockchain.accounts[tx.sender] /= NoAccount THEN blockchain.accounts[tx.sender]
    ELSE IF total_value(tx) /= 0 THEN NoAccount ELSE 0

\* mempool_update, adopted: an unknown transaction of a known sender.
adopt_known_sender(s, sender_balance, tx, tie) ==
    IF sender_balance = NoAccount THEN Done(s, <<>>)
    ELSE IF s.state_by_sender[tx.sender].total > sender_balance
         THEN remove_all(s, txs_to_remove(s, iter(s.state_by_sender[tx.sender].txns, tie),
                                          0, sender_balance))
         ELSE Done(s, <<>>)

\* mempool_update, adopted: one transaction of an adopted block.
adopt(s, blockchain, tx, tie) ==
    IF contains(s, tx.hash)
    THEN remove_rest(remove(s, tx.hash), <<>>)
    ELSE IF tx.sender \in DOMAIN s.state_by_sender
         THEN adopt_known_sender(s, sender_account(blockchain, tx), tx, tie)
         ELSE Done(s, <<>>)

\* mempool_update, adopted: the loop over the transactions.
RECURSIVE adopted_loop(_, _, _, _)
adopted_rest(r, blockchain, txs, tie) ==
    IF r.panicked THEN r ELSE adopted_loop(r.s, blockchain, txs, tie)
adopted_loop(s, blockchain, txs, tie) ==
    IF txs = <<>> THEN Done(s, <<>>)
    ELSE adopted_rest(adopt(s, blockchain, Head(txs), tie), blockchain, Tail(txs), tie)

\* mempool_update, reverted: the transaction is put back.
put_back(r) == IF r.panicked THEN Panicked(r.s, <<>>) ELSE Done(r.s, <<>>)

\* mempool_update, reverted: the total of the sender's pending transactions.
sender_total(s, tx) ==
    IF tx.sender \in DOMAIN s.state_by_sender THEN s.state_by_sender[tx.sender].total ELSE 0

\* mempool_update, reverted: one transaction of a reverted block.
revert(s, blockchain, tx) ==
    IF contains(s, tx.hash) THEN Done(s, <<>>)
    ELSE IF \/ ~is_valid_at(tx, blockchain.block_number + 1)
            \/ tx.hash \in blockchain.validity_window
         THEN Done(s, <<>>)
         ELSE IF blockchain.accounts[tx.sender] = NoAccount THEN Done(s, <<>>)
              ELSE IF total_value(tx) + sender_total(s, tx) <= blockchain.accounts[tx.sender]
                   THEN put_back(put(s, tx))
                   ELSE Done(s, <<>>)

\* mempool_update, reverted: the loop over the transactions.
RECURSIVE reverted_loop(_, _, _)
reverted_rest(r, blockchain, txs) ==
    IF r.panicked THEN r ELSE reverted_loop(r.s, blockchain, txs)
reverted_loop(s, blockchain, txs) ==
    IF txs = <<>> THEN Done(s, <<>>)
    ELSE reverted_rest(revert(s, blockchain, Head(txs)), blockchain, Tail(txs))

\* mempool_update: the passes that follow the aging.
update_aged(r, blockchain, adopted, reverted, tie) ==
    IF r.panicked THEN r
    ELSE IF adopted_loop(r.s, blockchain, adopted, tie).panicked
         THEN adopted_loop(r.s, blockchain, adopted, tie)
         ELSE reverted_loop(adopted_loop(r.s, blockchain, adopted, tie).s, blockchain,
                            reverted)

\* Mempool::mempool_update; adopted and reverted are the transactions of the
\* adopted and of the reverted blocks, in order.
mempool_update(s, blockchain, adopted, reverted, tie) ==
    update_aged(age_loop(s, blockchain.block_number + 1, tie), blockchain, adopted,
                reverted, tie)

\* verify_tx, the staking uniqueness check: the signer of a staking
\* transaction has no pending transaction of the same kind.
staking_conflict(s, tx) ==
    \/ tx.sender_type = "Staking" /\ tx.signer \in s[outgoing_set(tx)]
    \/ /\ tx.recipient_type = "Staking"
       /\ tx.data \in {"CreateValidator", "CreateStaker"}
       /\ tx.signer \in s[creating_set(tx)]

\* verify_tx: the transaction is not pending, does not conflict with a
\* pending staking transaction of its signer, and the sender's account pays
\* for it on top of the sender's pending transactions.
verify_tx(s, blockchain, tx) ==
    /\ ~contains(s, tx.hash)
    /\ ~staking_conflict(s, tx)
    /\ blockchain.accounts[tx.sender] /= NoAccount
    /\ total_value(tx) + sender_total(s, tx) <= blockchain.accounts[tx.sender]

\* Mempool::add_transaction: put if verify_tx accepts, under one lock.
add_transaction(s, blockchain, tx) ==
    IF verify_tx(s, blockchain, tx)
    THEN put(s, tx)
    ELSE [s |-> s, ok |-> FALSE, panicked |-> FALSE]

\* The latest operation: its name, its argument, what it returned.
Op(op, arg, r) ==
    [op |-> op, arg |-> arg, ok |-> r.ok, tx_vec |-> r.tx_vec, panicked |-> r.panicked]

\* ------------------------------------------------------------- the locks of Mempool
Tasks == 1..MaxTasks
\* The task that pushes blocks: the writer of the blockchain.
Pusher == MaxTasks + 1

\* parking_lot::RwLock: the tasks that hold it, by the mode they hold it in.
RwLock_new == [readers |-> {}, upgradable |-> {}, writer |-> {}]

\* RwLock::read blocks while a writer holds the lock or waits for the readers
\* to leave it.
can_read(l) == l.writer = {}

\* An upgradable read lock that other upgradable readers share.
can_upgradable_read_shared(l) == l.writer = {}

\* RwLock::upgradable_read blocks while a writer or another upgradable
\* reader holds the lock.
can_upgradable_read(l) == l.writer = {} /\ l.upgradable = {}

\* RwLock::write blocks while anyone holds the lock.
can_write(l) == l.writer = {} /\ l.upgradable = {} /\ l.readers = {}

\* RwLockUpgradableReadGuard::upgrade blocks while readers hold the lock.
can_upgrade(l) == l.readers = {}

read(l, t) == [l EXCEPT !.readers = @ \cup {t}]
upgradable_read(l, t) == [l EXCEPT !.upgradable = @ \cup {t}]
write(l, t) == [l EXCEPT !.writer = @ \cup {t}]
upgrade(l, t) == [l EXCEPT !.upgradable = @ \ {t}, !.writer = @ \cup {t}]
\* Dropping the guard of task t.
drop(l, t) ==
    [readers |-> l.readers \ {t}, upgradable |-> l.upgradable \ {t},
     writer |-> l.writer \ {t}]

\* Mempool::new: nobody holds a lock.
Locks_new == [blockchain |-> RwLock_new, state |-> RwLock_new, filter |-> RwLock_new]

\* A task outside the Mempool: op is the call it is in, pc its position, arg
\* the call's arguments, held the locks it holds in the order it took them and
\* seen the MempoolState verify_tx checked the transaction against.
IdleTask ==
    [op |-> "-", pc |-> "idle", arg |-> 0, held |-> <<>>, seen |-> MempoolState_new]

\* The global order of the locks.
Rank(name) == CASE name = "blockchain" -> 1 [] name = "state" -> 2 [] name = "filter" -> 3

\* mempool_update: the locks it takes, in the order it takes them.
mempool_update_locks_state_first == <<"state", "blockchain">>
mempool_update_locks == <<"blockchain", "state">>

\* mempool_update reads the blockchain and writes the state.
can_take(l, name) == IF name = "blockchain" THEN can_read(l[name]) ELSE can_write(l[name])
take(l, name, t) ==
    [l EXCEPT ![name] = IF name = "blockchain" THEN read(@, t) ELSE write(@, t)]

\* The lock the task waits for is free for it.
Ready(t) ==
    LET k == tasks[t] IN
    CASE k.pc \in {"network_id", "verify_blockchain"} -> can_read(locks.blockchain)
      [] k.pc \in {"verify_state", "get_state"} -> can_upgradable_read(locks.state)
      [] k.pc = "verify_filter" -> can_write(locks.filter)
      [] k.pc = "verify_check" -> TRUE
      [] k.pc \in {"put", "get_upgrade"} -> can_upgrade(locks.state)
      [] k.pc = "update_first" -> can_take(locks, mempool_update_locks[1])
      [] k.pc = "update_second" -> can_take(locks, mempool_update_locks[2])
      [] OTHER -> FALSE

\* Mempool::new: executor_handle is None (<<>>) behind a free Mutex, no
\* executor was spawned or aborted; the network has no topic subscribed;
\* result is how the latest call of the lifecycle ended.
Executor_new ==
    [handle |-> <<>>, mutex |-> {}, spawned |-> {}, aborted |-> {},
     gossip_topics |-> {}, result |-> "-"]

\* The two Networks.
Nets == {1, 2}

\* ConnectionPoolHandler::new. close_rx is "None", or the state of the
\* oneshot receiver it holds: "Pending" (nothing sent), "Ready" (the close
\* reason was sent) or "Taken" (the reason was received already).
ConnectionPoolHandler_new ==
    [peer_id |-> FALSE, peer |-> FALSE, close_rx |-> "None", socket |-> FALSE,
     closing |-> FALSE]

\* Two Networks that are not connected: conn is the connection ("none",
\* "open" or "closing"), handler the ConnectionPoolHandler of each side,
\* handlers the sides whose handler exists, peers whether pool.peers of the
\* side holds the other, events the NetworkEvents each side has sent, closed
\* whether SwarmEvent::ConnectionClosed awaits the side, shut the sides that
\* closed their socket, panicked the sides whose swarm task panicked.
Network_new ==
    [conn |-> "none",
     handler |-> [n \in Nets |-> ConnectionPoolHandler_new],
     handlers |-> {},
     peers |-> [n \in Nets |-> FALSE],
     events |-> [n \in Nets |-> <<>>],
     closed |-> [n \in Nets |-> FALSE],
     shut |-> {}, panicked |-> {}, dials |-> 0, closes |-> 0]

LocksIdle ==
    /\ network = Network_new
    /\ locks = Locks_new
    /\ tasks = [t \in Tasks |-> IdleTask]
    /\ calls = 0
    /\ executor = Executor_new

\* Mempool::new: nothing is pending.
MempoolIdle ==
    /\ mempool = MempoolState_new
    /\ mempool_op = Op("new", 0, [ok |-> TRUE, tx_vec |-> <<>>, panicked |-> FALSE])
    /\ LocksIdle

\* ------------------------------------------------------------- Spec: one SyncQueue
InitQueueOf(max_ids, max_window, peer_ids) ==
    /\ \E n \in 0..max_ids, np \in 1..Cardinality(peer_ids), d \in 1..max_window :
           sq = new(FreshIds(0, n), [i \in 1..np |-> i], d)
    /\ alive = peer_ids
    /\ emitted = <<>>
    /\ returned = "-"
    /\ fails = {}
    /\ peer_events = 0
    /\ cluster = cluster_new(<<>>, 0, <<>>)
    /\ epoch_length = 1
    /\ chain = <<>>
    /\ cluster_emitted = <<>>
    /\ cluster_returned = "-"
    /\ panicked = FALSE
    /\ sync_clusters = <<>>
    /\ epoch_id_stream = <<>>
    /\ rejected = {}
    /\ pushed = <<>>
    /\ evicted = <<>>
    /\ sync_returned = "-"
    /\ responses = 0
    /\ MempoolIdle

\* The driver task polls the stream.
Poll ==
    LET r == poll_next(sq, alive) IN
    /\ sq' = r.q
    /\ emitted' = IF r.out.kind \in {"Ok", "Err"} THEN Append(emitted, r.out)
                                                   ELSE emitted
    /\ returned' = r.out.kind
    /\ UNCHANGED <<alive, fails, peer_events, cvars, hvars, mvars>>

InitQueue(max_ids, max_window) == InitQueueOf(max_ids, max_window, PeerIds)

\* A request resolves; one sent to a dead agent can only fail.
Resolve(w, data) ==
    /\ w \in sq.pending_futures
    /\ w.agent \notin alive => data = "None"
    /\ sq' = resolve(sq, w, data)
    /\ fails' = IF data = "None" THEN fails \cup {<<w.index, w.agent>>} ELSE fails
    /\ returned' = "-"
    /\ UNCHANGED <<alive, emitted, peer_events, cvars, hvars, mvars>>

AddIds(n, max_ids) ==
    /\ enqueued(sq) + n <= max_ids
    /\ sq' = add_ids(sq, FreshIds(enqueued(sq), n))
    /\ returned' = "-"
    /\ UNCHANGED <<alive, emitted, fails, peer_events, cvars, hvars, mvars>>

\* A live peer that is not in the list joins.
AddPeer(p) ==
    /\ peer_events < MaxPeerEvents
    /\ p \in alive
    /\ p \notin Range(sq.peers)
    /\ sq' = add_peer(sq, p)
    /\ returned' = "-"
    /\ peer_events' = peer_events + 1
    /\ UNCHANGED <<alive, emitted, fails, cvars, hvars, mvars>>

RemovePeer(p) ==
    /\ peer_events < MaxPeerEvents
    /\ p \in Range(sq.peers)
    /\ sq' = remove_peer(sq, p)
    /\ returned' = "-"
    /\ peer_events' = peer_events + 1
    /\ UNCHANGED <<alive, emitted, fails, cvars, hvars, mvars>>

\* A peer of the list disconnects: its ConsensusAgent is dropped.
KillPeer(p) ==
    /\ peer_events < MaxPeerEvents
    /\ p \in alive
    /\ p \in Range(sq.peers)
    /\ alive' = alive \ {p}
    /\ returned' = "-"
    /\ peer_events' = peer_events + 1
    /\ UNCHANGED <<sq, emitted, fails, cvars, hvars, mvars>>

\* Spec: a SyncQueue over a fixed set of live peers.
Init == InitQueue(MaxIds, MaxWindow)

Next ==
    \/ Poll
    \/ \E w \in sq.pending_futures, data \in {"Some", "None"} : Resolve(w, data)
    \/ \E n \in 1..2 : AddIds(n, MaxIds)

Spec == Init /\ [][Next]_vars

\* SpecChurn: a SyncQueue whose peers join, leave and die.
InitChurn == InitQueue(ChurnIds, ChurnWindow)

NextChurn ==
    \/ Poll
    \/ \E w \in sq.pending_futures, data \in {"Some", "None"} : Resolve(w, data)
    \/ \E n \in 1..2 : AddIds(n, ChurnIds)
    \/ \E p \in PeerIds : AddPeer(p)
    \/ \E p \in PeerIds : RemovePeer(p)
    \/ \E p \in PeerIds : KillPeer(p)

SpecChurn == InitChurn /\ [][NextChurn]_vars

\* A call of truncate_ids; returned tells whether it dropped an id.
TruncateIds(l) ==
    /\ sq' = truncate_ids(sq, l)
    /\ returned' = IF sq' /= sq THEN "Truncated" ELSE "-"
    /\ UNCHANGED <<alive, emitted, fails, peer_events, cvars, hvars, mvars>>

\* SpecTruncate: a SyncQueue whose ids are truncated while it runs.
InitTruncate == InitQueue(MaxIds, MaxWindow)

NextTruncate ==
    \/ Poll
    \/ \E w \in sq.pending_futures, data \in {"Some", "None"} : Resolve(w, data)
    \/ \E n \in 1..2 : AddIds(n, MaxIds)
    \/ \E l \in 0..(MaxIds + 1) : TruncateIds(l)

SpecTruncate == InitTruncate /\ [][NextTruncate]_vars

\* SpecRetry: a SyncQueue over three peers, one of which may leave or die.
InitRetry == InitQueueOf(RetryIds, RetryWindow, 1..RetryPeers)

NextRetry ==
    \/ Poll
    \/ \E w \in sq.pending_futures, data \in {"Some", "None"} : Resolve(w, data)
    \/ \E p \in 1..RetryPeers : RemovePeer(p)
    \/ \E p \in 1..RetryPeers : KillPeer(p)

SpecRetry == InitRetry /\ [][NextRetry]_vars

\* ------------------------------------------------------------- SpecCluster
\* The chunks the epochs of a chain need together.
RECURSIVE chunks_of(_, _)
chunks_of(ch, ids) ==
    IF ids = {} THEN 0
    ELSE LET id == CHOOSE x \in ids : TRUE
         IN (ch[id] \div CHUNK_SIZE) + chunks_of(ch, ids \ {id})

\* The history lengths tried: none, less than a chunk, whole chunks.
HistoryLens == {0, 1} \cup {k * CHUNK_SIZE : k \in 1..MaxChunks}

InitClusterOf(epochs, max_chunks, lens) ==
    /\ \E n \in epochs, offset \in 1..MaxEpochOffset, np \in 1..ClusterPeers :
         /\ cluster = cluster_new([i \in 1..n |-> offset + i - 1], offset,
                                  [i \in 1..np |-> i])
         /\ \E ch \in [offset..(offset + n - 1) -> lens] :
              /\ chunks_of(ch, DOMAIN ch) <= max_chunks
              /\ chain = ch
    /\ epoch_length \in 1..MaxEpochLength
    /\ alive = 1..ClusterPeers
    /\ cluster_emitted = <<>>
    /\ cluster_returned = "-"
    /\ panicked = FALSE
    /\ sq = new(<<>>, <<>>, 0)
    /\ emitted = <<>>
    /\ returned = "-"
    /\ fails = {}
    /\ peer_events = 0
    /\ sync_clusters = <<>>
    /\ epoch_id_stream = <<>>
    /\ rejected = {}
    /\ pushed = <<>>
    /\ evicted = <<>>
    /\ sync_returned = "-"
    /\ responses = 0
    /\ MempoolIdle

InitCluster == InitClusterOf(1..ClusterEpochs, MaxChunks, HistoryLens)

\* HistorySync polls the cluster.
ClusterPolled(r) ==
    /\ ~panicked
    /\ IF r.out.kind = "Panic"
       THEN /\ panicked' = TRUE
            /\ cluster_returned' = "-"
            /\ UNCHANGED <<cluster, cluster_emitted>>
       ELSE /\ cluster' = r.c
            /\ cluster_emitted' = IF r.out.kind \in {"Ok", "Err"}
                                  THEN Append(cluster_emitted, r.out)
                                  ELSE cluster_emitted
            /\ cluster_returned' = r.out.kind
            /\ UNCHANGED panicked
    /\ UNCHANGED <<qvars, hvars, mvars, alive, epoch_length, chain>>

ClusterPoll == ClusterPolled(cluster_poll_next(cluster, alive))

\* A request_epoch request resolves.
ResolveEpoch(w, data) ==
    /\ ~panicked
    /\ w \in cluster.epoch_queue.pending_futures
    /\ cluster' = [cluster EXCEPT !.epoch_queue = resolve(@, w, data)]
    /\ cluster_returned' = "-"
    /\ UNCHANGED <<qvars, hvars, mvars, alive, epoch_length, chain, cluster_emitted, panicked>>

\* A request_history_chunk request resolves.
ResolveChunk(w, data) ==
    /\ ~panicked
    /\ w \in cluster.history_queue.pending_futures
    /\ cluster' = [cluster EXCEPT !.history_queue = resolve(@, w, data)]
    /\ cluster_returned' = "-"
    /\ UNCHANGED <<qvars, hvars, mvars, alive, epoch_length, chain, cluster_emitted, panicked>>

NextCluster ==
    \/ ClusterPoll
    \/ \E w \in cluster.epoch_queue.pending_futures, data \in {"Some", "None"} :
           ResolveEpoch(w, data)
    \/ \E w \in cluster.history_queue.pending_futures, data \in {"Some", "None"} :
           ResolveChunk(w, data)

SpecCluster == InitCluster /\ [][NextCluster]_vars

\* ------------------------------------------------------------- SpecSplit
\* A cluster of more epochs than the epoch queue requests at a time, polled
\* while its requests resolve, and split by cluster_epoch_ids; the cluster
\* split_off returns joins sync_clusters.
SplitOff(at) ==
    /\ ~panicked
    /\ Len(sync_clusters) < MaxSplits
    /\ cluster' = split_off(cluster, at).c
    /\ sync_clusters' = Append(sync_clusters, split_off(cluster, at).split)
    /\ cluster_returned' = "-"
    /\ UNCHANGED <<qvars, mvars, alive, epoch_length, chain, cluster_emitted, panicked,
                   epoch_id_stream, rejected, pushed, evicted, sync_returned, responses>>

\* Two epochs with histories, or SplitEpochs epochs without.
InitSplit ==
    \/ InitClusterOf({2}, SplitChunks, {0, CHUNK_SIZE})
    \/ InitClusterOf({SplitEpochs}, 0, {0})

NextSplit ==
    \/ ClusterPoll
    \/ \E w \in cluster.epoch_queue.pending_futures, data \in {"Some", "None"} :
           ResolveEpoch(w, data)
    \/ \E w \in cluster.history_queue.pending_futures, data \in {"Some", "None"} :
           ResolveChunk(w, data)
    \/ \E at \in 1..(Len(cluster.epoch_ids) - 1) : SplitOff(at)

SpecSplit == InitSplit /\ [][NextSplit]_vars

\* ------------------------------------------------------------- SpecSync
\* The epoch ids of the chain the peers may report: every epoch a response
\* can cover, on every fork.
SyncEpochs == 1..(MaxSyncOffset + ClusteringIds - 1)
SyncHashes == {hash_of(e, f) : e \in SyncEpochs, f \in 0..(MaxForks - 1)}
ForkHashes == {h \in SyncHashes : h >= ForkStride}

\* The id lists of at most max_ids ids a response with the given offset can
\* carry: the k-th id is the hash of epoch offset + k - 1 on some fork.
IdLists(offset, max_ids) ==
    UNION {{ids \in [1..n -> SyncHashes] :
               \A k \in 1..n : epoch_of(ids[k]) = offset + k - 1} : n \in 1..max_ids}

\* The id lists of a peer that reports the epochs of fork 0 in the wrong
\* order: HistorySync does not verify what it is sent.
Reverse(ids) == [k \in DOMAIN ids |-> ids[Len(ids) + 1 - k]]

ReversedLists(offset, max_ids) ==
    {Reverse(ids) : ids \in {l \in IdLists(offset, max_ids) :
                                 Len(l) >= 2 /\ \A k \in DOMAIN l : l[k] < ForkStride}}

\* HistorySync::new: no cluster, nothing in the stream. The blockchain is on
\* fork 0 and refuses either nothing or the epochs of the other forks; an
\* epoch has one chunk of history, the epochs of the other forks one or none.
InitHistorySync(num_peers_) ==
    /\ sync_clusters = <<>>
    /\ epoch_id_stream = <<>>
    /\ rejected \in {{}, ForkHashes}
    /\ \E l \in {0, CHUNK_SIZE} :
           chain = [h \in SyncHashes |-> IF h \in ForkHashes THEN l ELSE CHUNK_SIZE]
    /\ pushed = <<>>
    /\ evicted = <<>>
    /\ sync_returned = "-"
    /\ responses = 0
    /\ MempoolIdle
    /\ epoch_length \in 1..MaxEpochLength
    /\ alive = 1..num_peers_
    /\ cluster = cluster_new(<<>>, 0, <<>>)
    /\ cluster_emitted = <<>>
    /\ cluster_returned = "-"
    /\ panicked = FALSE
    /\ sq = new(<<>>, <<>>, 0)
    /\ emitted = <<>>
    /\ returned = "-"
    /\ fails = {}
    /\ peer_events = 0

\* HistorySync is still being polled: its future has not completed and has
\* not panicked.
Running == sync_returned \notin {"Ready", "Panic"}

\* A peer joined and the response to request_epoch_ids arrived: the stream
\* holds one more EpochIds. buffer_unordered keeps at most
\* CONCURRENT_HASH_REQUESTS requests, answered or not.
EpochIdsReady(e, max_responses) ==
    /\ Running
    /\ responses < max_responses
    /\ Len(epoch_id_stream) < CONCURRENT_HASH_REQUESTS
    /\ epoch_id_stream' = Append(epoch_id_stream, e)
    /\ responses' = responses + 1
    /\ UNCHANGED <<qvars, cvars, mvars, alive, sync_clusters, rejected, pushed, evicted,
                   sync_returned>>

\* The executor polls HistorySync.
SyncPolled(r) ==
    /\ sync_clusters' = r.h.sync_clusters
    /\ pushed' = r.h.pushed
    /\ evicted' = r.h.evicted
    /\ sync_returned' = r.out
    /\ epoch_id_stream' = stream_left(sync_clusters, epoch_id_stream)
    /\ UNCHANGED <<qvars, cvars, mvars, alive, rejected, responses>>

SyncPoll ==
    /\ Running
    /\ SyncPolled(sync_poll(sync_clusters, epoch_id_stream, alive))

\* A request_epoch request of the i-th cluster resolves.
SyncResolveEpoch(i, w, data) ==
    /\ Running
    /\ w \in sync_clusters[i].epoch_queue.pending_futures
    /\ sync_clusters' = [sync_clusters EXCEPT ![i].epoch_queue = resolve(@, w, data)]
    /\ UNCHANGED <<qvars, cvars, mvars, alive, epoch_id_stream, rejected, pushed, evicted,
                   sync_returned, responses>>

\* A request_history_chunk request of the i-th cluster resolves.
SyncResolveChunk(i, w, data) ==
    /\ Running
    /\ w \in sync_clusters[i].history_queue.pending_futures
    /\ sync_clusters' = [sync_clusters EXCEPT ![i].history_queue = resolve(@, w, data)]
    /\ UNCHANGED <<qvars, cvars, mvars, alive, epoch_id_stream, rejected, pushed, evicted,
                   sync_returned, responses>>

\* SpecSync: HistorySync with peers that join once each and answer or fail.
InitSync == InitHistorySync(MaxResponses)

NextSync ==
    \/ \E offset \in 1..MaxSyncOffset :
           \E ids \in IdLists(offset, MaxSyncIds) \cup ReversedLists(offset, MaxSyncIds) :
               EpochIdsReady(EpochIds(ids, offset, responses + 1), MaxResponses)
    \/ SyncPoll
    \/ \E i \in DOMAIN sync_clusters :
           \E w \in sync_clusters[i].epoch_queue.pending_futures, data \in {"Some", "None"} :
               SyncResolveEpoch(i, w, data)
    \/ \E i \in DOMAIN sync_clusters :
           \E w \in sync_clusters[i].history_queue.pending_futures, data \in {"Some", "None"} :
               SyncResolveChunk(i, w, data)

SpecSync == InitSync /\ [][NextSync]_vars

\* SpecClustering: HistorySync while no request is answered; the peers
\* report longer id lists.
InitClustering == InitHistorySync(ClusteringResponses)

NextClustering ==
    \/ \E offset \in 1..MaxSyncOffset : \E ids \in IdLists(offset, ClusteringIds) :
           EpochIdsReady(EpochIds(ids, offset, responses + 1), ClusteringResponses)
    \/ SyncPoll

SpecClustering == InitClustering /\ [][NextClustering]_vars

\* SpecFlood: HistorySync while no request is answered and every peer that
\* joins reports an epoch id of a fork of its own.
FloodResponses == MAX_CLUSTERS + FloodExcess

InitFlood ==
    /\ InitHistorySync(FloodResponses)
    /\ rejected = {}
    /\ epoch_length = 1
    /\ \A h \in SyncHashes : chain[h] = CHUNK_SIZE

NextFlood ==
    \/ EpochIdsReady(EpochIds(<<hash_of(1, responses + 1)>>, 1, responses + 1),
                     FloodResponses)
    \/ SyncPoll

SpecFlood == InitFlood /\ [][NextFlood]_vars

\* ------------------------------------------------------------- Spec: Mempool
\* value, fee, serialized_size and validity_start_height of the basic
\* transactions: fee per byte 1, 2 and 1/2.
Shapes == <<<<1, 1, 1, 0>>, <<2, 2, 1, 1>>, <<1, 1, 2, 0>>>>

\* The basic transactions: one of each shape for each sender.
BasicTxs ==
    {Transaction((a - 1) * Len(Shapes) + k, a, Shapes[k][1], Shapes[k][2], Shapes[k][3],
                 Shapes[k][4], "Basic", "Basic", "-", a) :
         a \in Senders, k \in DOMAIN Shapes}

\* The staking transactions, all signed by the first sender: two that
\* unstake and one that deletes a validator, sent by the staking contract,
\* and the creation of a staker and of a validator, sent to it.
StakingTxs ==
    LET h == MaxSenders * Len(Shapes) IN
    {Transaction(h + 1, StakingAddress, 1, 1, 1, 0, "Staking", "Basic", "Unstake", 1),
     Transaction(h + 2, StakingAddress, 1, 1, 1, 1, "Staking", "Basic", "Unstake", 1),
     Transaction(h + 3, StakingAddress, 1, 1, 1, 0, "Staking", "Basic", "DeleteValidator", 1),
     Transaction(h + 4, 1, 1, 1, 1, 0, "Basic", "Staking", "CreateStaker", 1),
     Transaction(h + 5, 1, 1, 1, 1, 1, "Basic", "Staking", "CreateValidator", 1)}

Txs == BasicTxs \cup StakingTxs
Hashes == {tx.hash : tx \in Txs}
Addresses == Senders \cup {StakingAddress}

\* The transactions of the blocks handed to one mempool_update.
BlockTxs == {<<>>} \cup {<<tx>> : tx \in Txs}

\* The balances tried: no account, and the even ones (every total_value of
\* Txs is even).
Balances == {NoAccount} \cup {b \in 0..MaxBalance : b % 2 = 0}

\* What mempool_update reads of the blockchain: the block number, the
\* balance of the accounts (the same for all) and the hashes the validity
\* window holds.
Blockchains ==
    {[block_number |-> n, accounts |-> [a \in Addresses |-> b], validity_window |-> w] :
         n \in 0..MaxHeight, b \in Balances, w \in {{}, Hashes}}

InitMempool ==
    /\ MempoolIdle
    /\ sq = new(<<>>, <<>>, 0)
    /\ alive = {}
    /\ emitted = <<>>
    /\ returned = "-"
    /\ fails = {}
    /\ peer_events = 0
    /\ cluster = cluster_new(<<>>, 0, <<>>)
    /\ epoch_length = 1
    /\ chain = <<>>
    /\ cluster_emitted = <<>>
    /\ cluster_returned = "-"
    /\ panicked = FALSE
    /\ sync_clusters = <<>>
    /\ epoch_id_stream = <<>>
    /\ rejected = {}
    /\ pushed = <<>>
    /\ evicted = <<>>
    /\ sync_returned = "-"
    /\ responses = 0

\* The operation returned r: the state it left and the record of it.
Returned(op, arg, r) ==
    /\ mempool' = r.s
    /\ mempool_op' = Op(op, arg, r)
    /\ UNCHANGED <<qvars, alive, cvars, hvars, lvars>>

\* What put and remove return, as an operation of the mempool.
NoTxs(r) == [s |-> r.s, ok |-> r.ok, tx_vec |-> <<>>, panicked |-> r.panicked]

\* What get_transactions_for_block and mempool_update return.
Unit(r) == [s |-> r.s, ok |-> TRUE, tx_vec |-> r.tx_vec, panicked |-> r.panicked]

\* A call of MempoolState::put, while the mempool holds less than max_pool.
Put(tx, max_pool) ==
    /\ ~mempool_op.panicked
    /\ Cardinality(DOMAIN mempool.transactions) < max_pool
    /\ Returned("put", tx, NoTxs(put(mempool, tx)))

\* A call of MempoolState::remove.
Remove(hash) ==
    /\ ~mempool_op.panicked
    /\ Returned("remove", hash, NoTxs(remove(mempool, hash)))

\* A call of Mempool::get_transactions_for_block.
GetTransactionsForBlock(max_bytes, tie) ==
    /\ ~mempool_op.panicked
    /\ Returned("get_transactions_for_block", max_bytes,
                Unit(get_transactions_for_block(mempool, max_bytes, tie)))

\* A call of Mempool::mempool_update, while the mempool has room for what the
\* reverted blocks hold. The validity window is read for a reverted
\* transaction only, the order of a HashSet for an adopted one only.
MempoolUpdate(blockchain, adopted, reverted, tie, max_pool) ==
    /\ ~mempool_op.panicked
    /\ Cardinality(DOMAIN mempool.transactions) + Len(reverted) <= max_pool
    /\ reverted = <<>> => blockchain.validity_window = {}
    /\ adopted = <<>> => tie
    /\ Returned("mempool_update", 0,
                Unit(mempool_update(mempool, blockchain, adopted, reverted, tie)))

NextMempool ==
    \/ \E tx \in Txs : Put(tx, MaxPool)
    \/ \E hash \in Hashes : Remove(hash)
    \/ \E max_bytes \in 0..MaxBytes, tie \in BOOLEAN :
           GetTransactionsForBlock(max_bytes, tie)
    \/ \E blockchain \in Blockchains, adopted \in BlockTxs, reverted \in BlockTxs,
          tie \in BOOLEAN :
           MempoolUpdate(blockchain, adopted, reverted, tie, MaxPool)

SpecMempool == InitMempool /\ [][NextMempool]_vars

\* ------------------------------------------------------------- Spec: block assembly
\* value, fee, serialized_size and validity_start_height of the transactions
\* a block is assembled from: fee per byte 1, 3, 2, and 1 at twice the size.
FeeShapes == <<<<1, 1, 1, 0>>, <<1, 3, 1, 0>>, <<1, 2, 1, 0>>, <<1, 2, 2, 0>>>>

FeeTxs ==
    {Transaction((a - 1) * Len(FeeShapes) + k, a, FeeShapes[k][1], FeeShapes[k][2],
                 FeeShapes[k][3], FeeShapes[k][4], "Basic", "Basic", "-", a) :
         a \in Senders, k \in DOMAIN FeeShapes}

InitBlock == InitMempool

NextBlock ==
    \/ \E tx \in FeeTxs : Put(tx, BlockPool)
    \/ \E max_bytes \in 0..MaxBytes, tie \in BOOLEAN :
           GetTransactionsForBlock(max_bytes, tie)

SpecBlock == InitBlock /\ [][NextBlock]_vars

\* ------------------------------------------------------------- Spec: verified puts
\* A call of Mempool::add_transaction, while the mempool holds less than
\* max_pool.
AddTransaction(blockchain, tx, max_pool) ==
    /\ ~mempool_op.panicked
    /\ Cardinality(DOMAIN mempool.transactions) < max_pool
    /\ Returned("add_transaction", tx, NoTxs(add_transaction(mempool, blockchain, tx)))

\* The blockchain as verify_tx reads it: the accounts.
Accounts == {b \in Blockchains : b.block_number = 0 /\ b.validity_window = {}}

InitStaking == InitMempool

NextStaking ==
    \/ \E blockchain \in Accounts, tx \in Txs : AddTransaction(blockchain, tx, StakingPool)
    \/ \E hash \in Hashes : Remove(hash)
    \/ \E max_bytes \in 0..MaxBytes, tie \in BOOLEAN :
           GetTransactionsForBlock(max_bytes, tie)

SpecStaking == InitStaking /\ [][NextStaking]_vars

\* ------------------------------------------------------------- Spec: mempool_update
\* A call of Mempool::mempool_update whose arguments, and the state it found,
\* are kept with what it returned.
MempoolUpdateOf(blockchain, adopted, reverted, tie, max_pool) ==
    /\ ~mempool_op.panicked
    /\ Cardinality(DOMAIN mempool.transactions) + Len(reverted) <= max_pool
    /\ Returned("mempool_update",
                [blockchain |-> blockchain, adopted |-> adopted, reverted |-> reverted,
                 before |-> mempool],
                Unit(mempool_update(mempool, blockchain, adopted, reverted, tie)))

\* The blockchain as the aging pass reads it: the block number.
Heights == {b \in Blockchains : b.accounts[StakingAddress] = MaxBalance /\ b.validity_window = {}}

\* SpecAging: transactions are added, and blocks without transactions are
\* adopted.
InitAging == InitMempool

NextAging ==
    \/ \E blockchain \in Accounts, tx \in Txs : AddTransaction(blockchain, tx, AgingPool)
    \/ \E blockchain \in Heights, tie \in BOOLEAN :
           MempoolUpdateOf(blockchain, <<>>, <<>>, tie, AgingPool)

SpecAging == InitAging /\ [][NextAging]_vars

\* SpecAdopted: transactions are added, and blocks are adopted at a height
\* at which no transaction tried is too old or too young.
InitAdopted == InitMempool

NextAdopted ==
    \/ \E blockchain \in Accounts, tx \in Txs : AddTransaction(blockchain, tx, AdoptedPool)
    \/ \E blockchain \in Accounts, adopted \in BlockTxs, tie \in BOOLEAN :
           MempoolUpdateOf(blockchain, adopted, <<>>, tie, AdoptedPool)

SpecAdopted == InitAdopted /\ [][NextAdopted]_vars

\* What a later mempool_update keeps of the operation before it: whether it
\* was a mempool_update, and then its arguments and the state it found.
Earlier(op) ==
    IF op.op = "mempool_update"
    THEN [updated |-> TRUE, blockchain |-> op.arg.blockchain, adopted |-> op.arg.adopted,
          before |-> op.arg.before]
    ELSE [updated |-> FALSE, blockchain |-> 0, adopted |-> <<>>, before |-> MempoolState_new]

\* A call of Mempool::mempool_update whose arguments, the state it found and
\* the operation before it are kept with what it returned.
MempoolUpdateAfter(blockchain, adopted, reverted, tie, max_pool) ==
    /\ ~mempool_op.panicked
    /\ Cardinality(DOMAIN mempool.transactions) + Len(reverted) <= max_pool
    /\ Returned("mempool_update",
                [blockchain |-> blockchain, adopted |-> adopted, reverted |-> reverted,
                 before |-> mempool, earlier |-> Earlier(mempool_op)],
                Unit(mempool_update(mempool, blockchain, adopted, reverted, tie)))

\* SpecReorg: transactions are added; then a block with a pending
\* transaction is adopted; then a block is reverted.
InitReorg == InitMempool

NextReorg ==
    \/ \E blockchain \in Accounts, tx \in Txs :
           /\ mempool_op.op /= "mempool_update"
           /\ AddTransaction(blockchain, tx, ReorgPool)
    \/ \E blockchain \in Heights, tx \in Txs :
           /\ mempool_op.op /= "mempool_update"
           /\ contains(mempool, tx.hash)
           /\ MempoolUpdateAfter(blockchain, <<tx>>, <<>>, TRUE, ReorgPool)
    \/ \E blockchain \in Blockchains, tx \in Txs :
           /\ mempool_op.op = "mempool_update"
           /\ mempool_op.arg.reverted = <<>>
           /\ MempoolUpdateAfter(blockchain, <<>>, <<tx>>, TRUE, ReorgPool)

SpecReorg == InitReorg /\ [][NextReorg]_vars

\* ------------------------------------------------------------- Spec: balances
\* The accounts after a block with the transactions txs was pushed: each
\* sender pays value and fee, the recipient (one address for the block)
\* receives the value.
RECURSIVE push_block(_, _, _)
push_block(accounts, txs, recipient) ==
    IF txs = <<>> THEN accounts
    ELSE push_block([a \in DOMAIN accounts |->
                        accounts[a]
                        - (IF a = Head(txs).sender THEN total_value(Head(txs)) ELSE 0)
                        + (IF a = recipient THEN Head(txs).value ELSE 0)],
                    Tail(txs), recipient)

\* The accounts after a block with the transactions txs was reverted.
RECURSIVE revert_block(_, _, _)
revert_block(accounts, txs, recipient) ==
    IF txs = <<>> THEN accounts
    ELSE revert_block([a \in DOMAIN accounts |->
                          accounts[a]
                          + (IF a = Head(txs).sender THEN total_value(Head(txs)) ELSE 0)
                          - (IF a = recipient THEN Head(txs).value ELSE 0)],
                      Tail(txs), recipient)

\* The chain a reorganisation leaves: the head block is reverted, another
\* block of the same number is adopted.
rebranch(blockchain, adopted, reverted, recipient) ==
    [blockchain EXCEPT
        !.accounts = push_block(revert_block(@, reverted, recipient), adopted, recipient)]

\* The chains the Mempool may find after the latest operation: any before the
\* first one, then the one the latest operation read.
Chains(op) ==
    IF op.op = "new"
    THEN {b \in Accounts : b.accounts[StakingAddress] \notin {NoAccount, 0}}
    ELSE {op.arg.blockchain}

\* A call of Mempool::add_transaction on the current chain.
AddTransactionOn(tx, max_pool) ==
    \E blockchain \in Chains(mempool_op) :
        /\ ~mempool_op.panicked
        /\ Cardinality(DOMAIN mempool.transactions) < max_pool
        /\ Returned("add_transaction", [blockchain |-> blockchain],
                    NoTxs(add_transaction(mempool, blockchain, tx)))

\* The chain is reorganised and Mempool::mempool_update is called with the
\* blocks adopted and reverted; old is the chain before. A reverted
\* transaction is in the new chain's validity window if the adopted block
\* holds it.
MempoolUpdateOn(adopted, reverted, recipient, tie, max_pool) ==
    \E old \in Chains(mempool_op) :
        LET blockchain ==
                [rebranch(old, adopted, reverted, recipient) EXCEPT
                    !.validity_window = {tx.hash : tx \in Range(adopted)}]
        IN /\ ~mempool_op.panicked
           /\ Cardinality(DOMAIN mempool.transactions) + Len(reverted) <= max_pool
           /\ \A a \in DOMAIN blockchain.accounts :
                  blockchain.accounts[a] \in 0..MaxBalance
           /\ \A a \in DOMAIN blockchain.accounts :
                  revert_block(old.accounts, reverted, recipient)[a] >= 0
           /\ adopted = <<>> => tie
           /\ Returned("mempool_update", [blockchain |-> blockchain],
                       Unit(mempool_update(mempool, blockchain, adopted, reverted, tie)))

InitBalance == InitMempool

NextBalance ==
    \/ \E tx \in BasicTxs : AddTransactionOn(tx, BalancePool)
    \/ \E adopted \in BlockTxs, reverted \in BlockTxs, recipient \in Senders,
          tie \in BOOLEAN :
           /\ Range(adopted) \cup Range(reverted) \subseteq BasicTxs
           /\ MempoolUpdateOn(adopted, reverted, recipient, tie, BalancePool)

SpecBalance == InitBalance /\ [][NextBalance]_vars


\* ------------------------------------------------------------- Spec: concurrent calls
\* The transactions the concurrent calls are about: those the first sender
\* signs, two of which unstake.
LockTxs == {tx \in Txs : tx.signer = 1 /\ tx.data \in {"-", "Unstake"}}

\* The blockchain the concurrent calls read: the accounts hold the largest
\* balance.
LockChain ==
    CHOOSE b \in Accounts :
        \A c \in Accounts : c.accounts[StakingAddress] <= b.accounts[StakingAddress]

\* A task calls the Mempool.
Call(t, op, pc, arg) ==
    /\ ~mempool_op.panicked
    /\ tasks[t].pc = "idle"
    /\ calls < MaxCalls
    /\ tasks' = [tasks EXCEPT ![t] = [IdleTask EXCEPT !.op = op, !.pc = pc, !.arg = arg]]
    /\ calls' = calls + 1
    /\ UNCHANGED <<locks, executor, mempool, mempool_op, network, qvars, alive, cvars, hvars>>

\* The task goes on inside its call; the mempool is as it was.
Goes(t, pc, held, l) ==
    /\ tasks' = [tasks EXCEPT ![t].pc = pc, ![t].held = held]
    /\ locks' = l
    /\ UNCHANGED <<calls, executor, mempool, mempool_op, network, qvars, alive, cvars, hvars>>

\* The task returns r from its call and drops every guard it holds.
Returns(t, r) ==
    /\ tasks' = [tasks EXCEPT ![t] = IdleTask]
    /\ locks' = [name \in DOMAIN locks |-> drop(locks[name], t)]
    /\ mempool' = r.s
    /\ mempool_op' = Op(tasks[t].op, tasks[t].arg, r)
    /\ UNCHANGED <<calls, executor, network, qvars, alive, cvars, hvars>>

\* add_transaction: blockchain.read().network_id, a guard dropped at once.
AddNetworkId(t) ==
    /\ tasks[t].pc = "network_id" /\ Ready(t)
    /\ Goes(t, "verify_blockchain", tasks[t].held, locks)

\* verify_tx takes the blockchain's read lock.
VerifyBlockchain(t) ==
    /\ tasks[t].pc = "verify_blockchain" /\ Ready(t)
    /\ Goes(t, "verify_state", Append(tasks[t].held, "blockchain"),
            [locks EXCEPT !.blockchain = read(@, t)])

\* verify_tx takes the state's upgradable read lock.
VerifyState(t) ==
    /\ tasks[t].pc = "verify_state" /\ Ready(t)
    /\ Goes(t, "verify_filter", Append(tasks[t].held, "state"),
            [locks EXCEPT !.state = upgradable_read(@, t)])

\* verify_tx takes the filter's write lock.
VerifyFilter(t) ==
    /\ tasks[t].pc = "verify_filter" /\ Ready(t)
    /\ Goes(t, "verify_check", Append(tasks[t].held, "filter"),
            [locks EXCEPT !.filter = write(@, t)])

\* verify_tx checks the transaction against the state and returns: the
\* state's guard if it accepts the transaction, and then add_transaction goes
\* on; an error if not, and then add_transaction returns it.
VerifyCheck(t) ==
    /\ tasks[t].pc = "verify_check" /\ Ready(t)
    /\ IF verify_tx(mempool, tasks[t].arg.blockchain, tasks[t].arg.tx)
       THEN /\ tasks' = [tasks EXCEPT ![t].pc = "put", ![t].held = <<"state">>,
                                      ![t].seen = mempool]
            /\ locks' = [locks EXCEPT !.blockchain = drop(@, t), !.filter = drop(@, t)]
            /\ UNCHANGED <<calls, executor, mempool, mempool_op, network, qvars, alive, cvars, hvars>>
       ELSE Returns(t, [s |-> mempool, ok |-> FALSE, tx_vec |-> <<>>,
                        panicked |-> FALSE])

\* add_transaction upgrades the guard verify_tx returned and puts.
AddPut(t) ==
    /\ tasks[t].pc = "put" /\ Ready(t)
    /\ Returns(t, NoTxs(put(mempool, tasks[t].arg.tx)))

\* get_transactions_for_block takes the state's upgradable read lock and
\* returns if nothing is pending.
GetState(t) ==
    /\ tasks[t].pc = "get_state" /\ Ready(t)
    /\ IF DOMAIN mempool.transactions = {}
       THEN Returns(t, Unit(get_transactions_for_block(mempool, tasks[t].arg, TRUE)))
       ELSE Goes(t, "get_upgrade", Append(tasks[t].held, "state"),
                 [locks EXCEPT !.state = upgradable_read(@, t)])

\* get_transactions_for_block upgrades its guard and takes the transactions.
GetUpgrade(t) ==
    /\ tasks[t].pc = "get_upgrade" /\ Ready(t)
    /\ Returns(t, Unit(get_transactions_for_block(mempool, tasks[t].arg, TRUE)))

\* mempool_update takes its first lock.
UpdateFirst(t) ==
    /\ tasks[t].pc = "update_first" /\ Ready(t)
    /\ Goes(t, "update_second", Append(tasks[t].held, mempool_update_locks[1]),
            take(locks, mempool_update_locks[1], t))

\* mempool_update takes its second lock and updates the state.
UpdateSecond(t) ==
    /\ tasks[t].pc = "update_second" /\ Ready(t)
    /\ Returns(t, Unit(mempool_update(mempool, tasks[t].arg.blockchain,
                                      tasks[t].arg.adopted, <<>>, TRUE)))

\* Blockchain's writer asks for the lock: readers come no more.
BlockchainPush ==
    /\ locks.blockchain.writer = {}
    /\ locks' = [locks EXCEPT !.blockchain = write(@, Pusher)]
    /\ UNCHANGED <<tasks, calls, executor, mempool, mempool_op, network, qvars, alive, cvars, hvars>>

\* The readers have left: the writer writes and drops its guard.
BlockchainPushed ==
    /\ locks.blockchain.writer = {Pusher}
    /\ can_upgrade(locks.blockchain)
    /\ locks' = [locks EXCEPT !.blockchain = drop(@, Pusher)]
    /\ UNCHANGED <<tasks, calls, executor, mempool, mempool_op, network, qvars, alive, cvars, hvars>>

InitLocks == InitMempool

NextLocks ==
    \/ \E t \in Tasks, tx \in LockTxs :
           Call(t, "add_transaction", "network_id", [blockchain |-> LockChain, tx |-> tx])
    \/ \E t \in Tasks : Call(t, "get_transactions_for_block", "get_state", MaxBytes)
    \/ \E t \in Tasks, adopted \in {<<>>} \cup {<<tx>> : tx \in LockTxs} :
           Call(t, "mempool_update", "update_first",
                [blockchain |-> LockChain, adopted |-> adopted])
    \/ \E t \in Tasks : AddNetworkId(t)
    \/ \E t \in Tasks : VerifyBlockchain(t)
    \/ \E t \in Tasks : VerifyState(t)
    \/ \E t \in Tasks : VerifyFilter(t)
    \/ \E t \in Tasks : VerifyCheck(t)
    \/ \E t \in Tasks : AddPut(t)
    \/ \E t \in Tasks : GetState(t)
    \/ \E t \in Tasks : GetUpgrade(t)
    \/ \E t \in Tasks : UpdateFirst(t)
    \/ \E t \in Tasks : UpdateSecond(t)
    \/ BlockchainPush
    \/ BlockchainPushed

SpecLocks == InitLocks /\ [][NextLocks]_vars


\* ------------------------------------------------------------- Spec: executor lifecycle
\* TransactionTopic, the one topic the mempool subscribes to.
TransactionTopic == "transactions"

\* tokio::spawn of a new executor with AbortHandle::new_pair, and
\* *executor_handle = Some(abort_handle).
spawn(e) ==
    LET id == Cardinality(e.spawned) + 1 IN
    [e EXCEPT !.spawned = @ \cup {id}, !.handle = <<id>>]

\* handle.take().expect(..).abort()
take_abort(e) == [e EXCEPT !.aborted = @ \cup {e.handle[1]}, !.handle = <<>>]

\* A call of the lifecycle starts.
LifecycleCall(t, op) ==
    /\ tasks[t].pc = "idle"
    /\ calls < MaxLifecycleCalls
    /\ tasks' = [tasks EXCEPT ![t] = [IdleTask EXCEPT !.op = op, !.pc = "lock"]]
    /\ calls' = calls + 1
    /\ UNCHANGED <<locks, executor, mempool, mempool_op, network, qvars, alive, cvars, hvars>>

\* The call goes on to await the network, holding the Mutex.
Awaits(t, pc) ==
    /\ tasks' = [tasks EXCEPT ![t].pc = pc]
    /\ executor' = [executor EXCEPT !.mutex = {t}]
    /\ UNCHANGED <<locks, calls, mempool, mempool_op, network, qvars, alive, cvars, hvars>>

\* The call ends, returning or panicking, with the executor as e; the guard
\* of the Mutex is dropped.
Ends(t, e, result) ==
    /\ tasks' = [tasks EXCEPT ![t] = IdleTask]
    /\ executor' = [e EXCEPT !.mutex = {}, !.result = result]
    /\ UNCHANGED <<locks, calls, mempool, mempool_op, network, qvars, alive, cvars, hvars>>

\* executor_handle.lock().await, and what follows up to the next await or to
\* the end of the call.
LockHandle(t) ==
    /\ tasks[t].pc = "lock"
    /\ executor.mutex = {}
    /\ CASE tasks[t].op = "start_executor" ->
              IF executor.handle /= <<>>
              THEN Ends(t, executor, "returned")
              ELSE Awaits(t, "subscribe")
         [] tasks[t].op = "start_executor_with_txn_stream" ->
              IF executor.handle /= <<>>
              THEN Ends(t, executor, "returned")
              ELSE Ends(t, spawn(executor), "returned")
         [] tasks[t].op = "stop_executor" ->
              IF executor.handle = <<>>
              THEN Ends(t, executor, "returned")
              ELSE Awaits(t, "unsubscribe")
         [] tasks[t].op = "stop_executor_without_unsuscribe" ->
              IF executor.handle = <<>>
              THEN Ends(t, executor, "returned")
              ELSE Ends(t, take_abort(executor), "returned")

\* start_executor: network.subscribe::<TransactionTopic>().await.unwrap(), and
\* the spawn. A topic subscribed already is an error, which unwrap turns
\* into a panic.
Subscribe(t) ==
    /\ tasks[t].pc = "subscribe"
    /\ IF TransactionTopic \in executor.gossip_topics
       THEN Ends(t, executor, "panicked")
       ELSE Ends(t, spawn([executor EXCEPT !.gossip_topics = @ \cup {TransactionTopic}]),
                 "returned")

\* stop_executor: network.unsubscribe::<TransactionTopic>().await.unwrap(), and
\* the abort. A topic that is not subscribed is an error, which unwrap turns
\* into a panic.
Unsubscribe(t) ==
    /\ tasks[t].pc = "unsubscribe"
    /\ IF TransactionTopic \in executor.gossip_topics
       THEN Ends(t, take_abort([executor EXCEPT !.gossip_topics = @ \ {TransactionTopic}]),
                 "returned")
       ELSE Ends(t, executor, "panicked")

\* The caller of start_executor_with_txn_stream subscribes to the topic, or
\* unsubscribes from it, on its own.
CallerSubscribes ==
    /\ \A t \in Tasks : tasks[t].pc = "idle"
    /\ executor' = [executor EXCEPT
           !.gossip_topics = IF TransactionTopic \in @ THEN @ \ {TransactionTopic}
                             ELSE @ \cup {TransactionTopic},
           !.result = "-"]
    /\ UNCHANGED <<locks, tasks, calls, mempool, mempool_op, network, qvars, alive, cvars, hvars>>

LifecycleOps ==
    {"start_executor", "start_executor_with_txn_stream", "stop_executor",
     "stop_executor_without_unsuscribe"}

InitExecutor == InitMempool

NextExecutor ==
    \/ \E t \in Tasks, op \in LifecycleOps : LifecycleCall(t, op)
    \/ \E t \in Tasks : LockHandle(t)
    \/ \E t \in Tasks : Subscribe(t)
    \/ \E t \in Tasks : Unsubscribe(t)
    \/ CallerSubscribes

SpecExecutor == InitExecutor /\ [][NextExecutor]_vars


\* ------------------------------------------------------------- Spec: two Networks
\* The other side of the connection.
Other(n) == CHOOSE m \in Nets : m /= n

\* The steps of the two Networks leave everything else alone.
NetworkStep(n) ==
    /\ network' = n
    /\ UNCHANGED <<locks, tasks, calls, executor, mempool, mempool_op, qvars, alive,
                   cvars, hvars>>

\* Network::handle_event, ConnectionPoolEvent::PeerJoined: the behaviour has
\* put the peer into pool.peers, the Network sends NetworkEvent::PeerJoined.
peer_joined(net, n) ==
    [net EXCEPT !.peers[n] = TRUE, !.events[n] = Append(@, "PeerJoined")]

\* The behaviour closes the connection: SwarmEvent::ConnectionClosed awaits
\* both sides.
close_connection(net) ==
    IF net.conn = "open"
    THEN [net EXCEPT !.conn = "closing", !.closed = [n \in Nets |-> TRUE]]
    ELSE net

\* Network::handle_event, SwarmEvent::ConnectionClosed: the peer is removed
\* from pool.peers and, if it was there, NetworkEvent::PeerLeft is sent. The
\* connection's handler is gone.
connection_closed(net, n) ==
    [net EXCEPT !.peers[n] = FALSE,
                !.events[n] = IF net.peers[n] THEN Append(@, "PeerLeft") ELSE @,
                !.closed[n] = FALSE,
                !.handlers = @ \ {n},
                !.conn = IF net.closed[Other(n)] THEN @ ELSE "none"]

\* ConnectionPoolHandler::poll, the close_rx it polls while it has a peer: a
\* reason that was sent sets closing and leaves close_rx in place; a receiver
\* polled again after it gave its value returns Err(Canceled).
poll_close_rx(h) ==
    CASE h.close_rx = "Ready" -> [h EXCEPT !.closing = TRUE, !.close_rx = "Taken"]
      [] h.close_rx = "Taken" -> [h EXCEPT !.close_rx = "Canceled"]
      [] OTHER -> h

\* ConnectionPoolHandler::poll of side n, where peer.poll_close would return
\* poll_close ("Ready", "Err" or "Pending").
poll(net, n, poll_close) ==
    LET h == net.handler[n]
        rx == poll_close_rx(h) IN
    IF h.peer
    THEN IF rx.close_rx = "Canceled"
         THEN \* panic!("close_rx returned error")
              [net EXCEPT !.panicked = @ \cup {n}]
         ELSE IF rx.closing
         THEN CASE poll_close = "Ready" ->
                       \* HandlerOutEvent::PeerLeft
                       close_connection(
                           [net EXCEPT !.handler[n] = [rx EXCEPT !.closing = FALSE,
                                                                 !.peer = FALSE],
                                       !.shut = @ \cup {n}])
                [] poll_close = "Err" ->
                       \* ConnectionHandlerEvent::Close: the handler is polled
                       \* no more
                       close_connection([net EXCEPT !.handler[n] = rx,
                                                    !.handlers = @ \ {n},
                                                    !.shut = @ \cup {n}])
                [] OTHER -> [net EXCEPT !.handler[n] = rx]
         ELSE IF Other(n) \in net.shut
         THEN \* poll_inbound: the stream ended, HandlerOutEvent::PeerLeft
              close_connection([net EXCEPT !.handler[n] = rx])
         ELSE [net EXCEPT !.handler[n] = rx]
    ELSE IF ~h.socket \/ ~h.peer_id
    THEN net
    ELSE \* HandlerOutEvent::PeerJoined
         peer_joined([net EXCEPT !.handler[n] = [h EXCEPT !.socket = FALSE, !.peer = TRUE,
                                                          !.close_rx = "Pending"]], n)

\* dial_address: a connection is established and each side gets a new
\* handler.
Dial ==
    /\ network.conn = "none"
    /\ network.panicked = {}
    /\ network.dials < MaxDials
    /\ NetworkStep([network EXCEPT
           !.conn = "open",
           !.handlers = Nets,
           !.handler = [n \in Nets |-> ConnectionPoolHandler_new],
           !.shut = {},
           !.dials = @ + 1])

\* ConnectionPoolHandler::inject_event, HandlerInEvent::PeerConnected.
InjectPeerConnected(n) ==
    /\ n \in network.handlers
    /\ ~network.handler[n].peer_id
    /\ NetworkStep([network EXCEPT !.handler[n].peer_id = TRUE])

\* ConnectionPoolHandler::inject_fully_negotiated_inbound and _outbound: the
\* one substream of the connection is negotiated.
InjectFullyNegotiated(n) ==
    /\ n \in network.handlers
    /\ network.handler[n].close_rx = "None"
    /\ ~network.handler[n].peer /\ ~network.handler[n].socket
    /\ NetworkStep([network EXCEPT !.handler[n].socket = TRUE])

\* Peer::close on side n, once both sides have joined and while nobody else
\* closes: the reason is sent to the handler's close_rx.
Close(n) ==
    /\ network.conn = "open"
    /\ \A m \in Nets : network.peers[m] /\ network.handler[m].close_rx = "Pending"
    /\ network.closes < MaxCloses
    /\ NetworkStep([network EXCEPT !.handler[n].close_rx = "Ready", !.closes = @ + 1])

\* The swarm task of side n polls the connection's handler.
HandlerPoll(n, poll_close) ==
    /\ n \in network.handlers
    /\ n \notin network.panicked
    /\ poll_close /= "Ready" => network.handler[n].closing \/ network.handler[n].close_rx = "Ready"
    /\ poll(network, n, poll_close) /= network
    /\ NetworkStep(poll(network, n, poll_close))

\* The swarm task of side n handles SwarmEvent::ConnectionClosed.
ConnectionClosed(n) ==
    /\ network.closed[n]
    /\ n \notin network.panicked
    /\ NetworkStep(connection_closed(network, n))

InitNetwork == InitMempool

NextNetwork ==
    \/ Dial
    \/ \E n \in Nets : InjectPeerConnected(n)
    \/ \E n \in Nets : InjectFullyNegotiated(n)
    \/ \E n \in Nets : Close(n)
    \/ \E n \in Nets, poll_close \in {"Ready", "Err", "Pending"} : HandlerPoll(n, poll_close)
    \/ \E n \in Nets : ConnectionClosed(n)

SpecNetwork == InitNetwork /\ [][NextNetwork]_vars

\* The swarm task of a Network runs on: its handler is polled (with a socket
\* that closes at once, if the poll finds it so) and its events are handled.
FairNetwork ==
    \A n \in Nets :
        /\ WF_vars(InjectPeerConnected(n))
        /\ WF_vars(InjectFullyNegotiated(n))
        /\ WF_vars(HandlerPoll(n, "Ready"))
        /\ WF_vars(ConnectionClosed(n))

SpecNetworkFair == SpecNetwork /\ FairNetwork


\* ------------------------------------------------------------- claims: SyncQueue
Last(s) == s[Len(s)]

OkItems == SelectSeq(emitted, LAMBDA e : e.kind = "Ok")

\* poll_next has just signalled the end of the stream.
Ended == returned = "None"

\* The queue of scenarios S1 and S2: ids [A, B, C] (named 1, 2, 3; indices 0,
\* 1, 2), peers [p1, p2], window 3.
Scenario ==
    /\ enqueued(sq) = 3
    /\ sq.peers = <<1, 2>>
    /\ sq.desired_pending_size = 3

\* C1: the Ok items poll_next yields have strictly increasing indices, and the
\* first of them has index 0, whatever the peers and the requests do.
C1_OkInEnqueueOrder ==
    /\ \A i, j \in DOMAIN OkItems : i < j => OkItems[i].index < OkItems[j].index
    /\ OkItems /= <<>> => OkItems[1].index = 0

\* C1 witness: two successes were yielded in order after a peer event, the
\* second of them out of the heap or after a retry.
C1_Witness ==
    /\ Len(OkItems) >= 2
    /\ peer_events > 0
    /\ fails /= {}

\* C2 (as claimed): once the stream has ended with a peer left, every id that
\* was enqueued has produced exactly one item.
C2_EveryIdExactlyOnce ==
    (Ended /\ sq.peers /= <<>>) =>
        \A k \in 0..(enqueued(sq) - 1) :
            Cardinality({i \in DOMAIN emitted : emitted[i].index = k}) = 1

\* C3 (as claimed): in scenario S2, where both peers fail B and no other
\* request fails, the stream yields Ok(A), Err(B), Ok(C) and then ends.
C3_ExhaustionKeepsLaterIds ==
    (Scenario /\ Ended /\ fails = {<<1, 1>>, <<1, 2>>}) =>
        emitted = <<Item("Ok", 1, 0), Item("Err", 2, 1), Item("Ok", 3, 2)>>

\* C4 (as claimed): no Ok is yielded after the Err of an id with a larger index.
C4_ErrAfterEarlierOks ==
    \A i, j \in DOMAIN emitted :
        (emitted[i].kind = "Err" /\ emitted[j].kind = "Ok"
            /\ emitted[j].index < emitted[i].index) => j < i

\* C5 (as claimed): in scenario S1, while B has failed at most once on each of
\* p1 and p2 and no other request has failed, no Err is yielded.
C5_NoErrAfterTwoFailures ==
    (Scenario /\ fails \subseteq {<<1, 1>>, <<1, 2>>}) =>
        \A i \in DOMAIN emitted : emitted[i].kind /= "Err"

\* C5 (amended): in scenario S1 with a single failure, that of B on the peer it
\* was first sent to, the stream yields Ok(A), Ok(B), Ok(C) and then ends.
C5_OneRetryKeepsOrder ==
    (Scenario /\ Ended /\ \E p \in PeerIds : fails = {<<1, p>>}) =>
        emitted = <<Item("Ok", 1, 0), Item("Ok", 2, 1), Item("Ok", 3, 2)>>

C5_Witness ==
    /\ Scenario /\ Ended /\ \E p \in PeerIds : fails = {<<1, p>>}
    /\ Len(emitted) = 3

\* C6 (as claimed): when poll_next yields Err(id), every peer of the peer set
\* has been asked for that id (and has failed it).
C6_ErrOnlyWhenAllPeersTried ==
    returned = "Err" =>
        \A p \in Range(sq.peers) : <<Last(emitted).index, p>> \in fails

\* No request in flight is a re-request.
NoRetryOutstanding ==
    \A w \in sq.pending_futures \cup Range(sq.ready_to_run) : w.num_tries = 1

\* C7: while no retry is outstanding, the requests in flight and the parked
\* outputs together are at most desired_pending_size.
C7_WindowBound ==
    NoRetryOutstanding =>
        pending_len(sq) + Cardinality(sq.queued_outputs) <= sq.desired_pending_size

\* C7 witness: the window is full, part of it parked outputs, and ids wait.
C7_Witness ==
    /\ NoRetryOutstanding
    /\ sq.queued_outputs /= {}
    /\ sq.ids_to_request /= <<>>
    /\ pending_len(sq) + Cardinality(sq.queued_outputs) = sq.desired_pending_size

\* C8 (as claimed): the stream ends only with the ids exhausted and nothing in
\* flight or parked, or with no peer left while ids remain.
C8_EndOnlyWhenDrained ==
    Ended =>
        \/ /\ sq.ids_to_request = <<>>
           /\ pending_len(sq) = 0
           /\ sq.queued_outputs = {}
        \/ /\ sq.peers = <<>>
           /\ sq.ids_to_request /= <<>>

\* ------------------------------------------------------------- claims: SyncCluster
OkEpochs == SelectSeq(cluster_emitted, LAMBDA e : e.kind = "Ok")

EmittedEpochNumber(i) == epoch_at(OkEpochs[i].epoch.block.block_number)

ClusterIdle == len(cluster.epoch_queue) = 0 /\ len(cluster.history_queue) = 0

\* C10 (as claimed): the cluster is never left Pending with nothing
\* outstanding and a complete epoch at the head of pending_epochs.
C10_CompleteHeadIsEmitted ==
    (cluster_returned = "Pending" /\ ClusterIdle /\ cluster.pending_epochs /= <<>>)
        => ~is_complete(cluster.pending_epochs[1])

\* The history entries of the chunks 0 .. n-1 of the epoch with macro block
\* block_number, in chunk order.
ChunkedHistory(block_number, n) ==
    [k \in 1..(n * CHUNK_SIZE) |-> <<block_number, (k - 1) \div CHUNK_SIZE>>]

SameCluster(a, b) ==
    /\ a.epoch_ids = b.epoch_ids
    /\ a.epoch_offset = b.epoch_offset
    /\ a.epoch_queue.peers = b.epoch_queue.peers
    /\ a.history_queue.peers = b.history_queue.peers

\* A poll that evicted k clusters from the list d it polled: the clusters
\* evicted are the k best of d, best first; the others are as they were,
\* except that the best of them has been polled and is pending.
EvictedBest(d, k) ==
    /\ Len(sync_clusters') = Len(d) - k
    /\ \A j \in 1..k :
         SameCluster(evicted'[Len(evicted) + j].cluster, d[Len(d) - j + 1])
    /\ \A i \in 1..(Len(sync_clusters') - 1) : sync_clusters'[i] = d[i]
    /\ sync_clusters' /= <<>> =>
         /\ SameCluster(sync_clusters'[Len(sync_clusters')], d[Len(sync_clusters')])
         /\ sync_returned' \in {"Pending", "Panic"}
    /\ sync_clusters' = <<>> => sync_returned' = "Ready"

\* C12: when the best cluster yields an error, ends, or delivers an epoch the
\* blockchain refuses, HistorySync::poll removes that cluster and no other,
\* leaves the others unchanged and polls the next best one.
C12_EvictsTheFailedClusterOnly ==
    [][Len(evicted') > Len(evicted) =>
          EvictedBest(pull_epoch_ids(sync_clusters, epoch_id_stream),
                      Len(evicted') - Len(evicted))]_vars

\* C12 witness: a cluster was evicted for an error of its queues, another
\* for an epoch the blockchain refused, and a third is being polled.
C12_Witness ==
    /\ \E i \in DOMAIN evicted : evicted[i].why = "Err"
    /\ \E i \in DOMAIN evicted : evicted[i].why = "Rejected"
    /\ sync_clusters /= <<>>
    /\ sync_returned = "Pending"

\* C13 (as claimed): the future of HistorySync never completes; poll never
\* returns Ready.
C13_NeverCompletes == sync_returned /= "Ready"

\* Two pushes of the same run of a cluster, the second the next after the
\* first: same offset and first id, and no cluster with that offset and
\* first id was evicted between them.
SameRun(i, j) ==
    /\ i < j
    /\ pushed[i].offset = pushed[j].offset
    /\ pushed[i].first_id = pushed[j].first_id
    /\ \A k \in (pushed[i].evictions + 1)..pushed[j].evictions :
         ~ /\ evicted[k].cluster.epoch_offset = pushed[i].offset
           /\ evicted[k].cluster.epoch_ids[1] = pushed[i].first_id

NextInRun(i, j) ==
    /\ SameRun(i, j)
    /\ \A k \in (i + 1)..(j - 1) : ~SameRun(i, k)

\* The ids of the cluster of a push name consecutive epochs, the first of
\* them the epoch of the cluster's offset.
ConsecutiveIds(i) ==
    \A k \in DOMAIN pushed[i].epoch_ids :
        epoch_of(pushed[i].epoch_ids[k]) = pushed[i].offset + k - 1

View(c) ==
    [ids |-> c.epoch_ids, offset |-> c.epoch_offset, peers |-> Range(c.epoch_queue.peers)]

Views(clusters) == {View(clusters[i]) : i \in DOMAIN clusters}

\* The length of the longest common prefix of two id lists.
CommonPrefix(a, b) ==
    LET same == {k \in 0..Min(Len(a), Len(b)) : SubSeq(a, 1, k) = SubSeq(b, 1, k)}
    IN CHOOSE k \in same : \A j \in same : j <= k

Suffix(ids, from) == SubSeq(ids, from + 1, Len(ids))

\* The response e overlaps the cluster c from position s of the cluster on
\* and agrees with it on p of the L ids compared, 0 < p < L.
PartialMatch(c, e, s, p) ==
    /\ c.epoch_offset <= e.offset
    /\ s = e.offset - c.epoch_offset
    /\ s < Len(c.epoch_ids)
    /\ p = CommonPrefix(Suffix(c.epoch_ids, s), e.ids)
    /\ 0 < p
    /\ p < Min(Len(c.epoch_ids) - s, Len(e.ids))

\* The three clusters C15 names.
SplitResult(c, e, s, p) ==
    { [ids    |-> SubSeq(c.epoch_ids, 1, s + p),
       offset |-> c.epoch_offset,
       peers  |-> Range(c.epoch_queue.peers) \cup {e.sender}],
      [ids    |-> Suffix(c.epoch_ids, s + p),
       offset |-> c.epoch_offset + s + p,
       peers  |-> Range(c.epoch_queue.peers)],
      [ids    |-> Suffix(e.ids, p),
       offset |-> e.offset + p,
       peers  |-> {e.sender}] }

\* C15: when HistorySync holds one cluster and clusters a response that
\* matches it partially, it holds afterwards the truncated cluster with the
\* sender added, the split-off rest with the original peers, and a cluster
\* of the sender alone with the ids that did not match.
C15_PartialMatchSplits ==
    [][\A s \in 0..ClusteringIds, p \in 1..ClusteringIds :
          (/\ Len(sync_clusters) = 1
           /\ Len(epoch_id_stream) = 1
           /\ epoch_id_stream' = <<>>
           /\ PartialMatch(sync_clusters[1], epoch_id_stream[1], s, p))
          => /\ Len(sync_clusters') = 3
             /\ Views(sync_clusters') = SplitResult(sync_clusters[1], epoch_id_stream[1], s, p)
             /\ \A i \in DOMAIN sync_clusters' :
                  sync_clusters'[i].history_queue.peers = sync_clusters'[i].epoch_queue.peers]_vars

\* C15 witness: the clusters of a split are held: a cluster of two ids at
\* offset 1 with both peers, the rest of the first peer's ids at offset 3 with
\* the first peer, and the id of the second peer that did not match, at
\* offset 3 with the second peer alone.
C15_Witness ==
    /\ Len(sync_clusters) = 3
    /\ epoch_id_stream = <<>>
    /\ \E a, b, c \in Views(sync_clusters) :
         /\ a.offset = 1 /\ Len(a.ids) = 2 /\ a.peers = {1, 2}
         /\ b.offset = 3 /\ b.peers = {1} /\ b.ids = <<hash_of(3, 0)>>
         /\ c.offset = 3 /\ c.peers = {2} /\ c.ids = <<hash_of(3, 1)>>

\* a comes before b in the lexicographic order of id lists of equal length.
LexBefore(a, b) ==
    \E k \in DOMAIN a : SubSeq(a, 1, k - 1) = SubSeq(b, 1, k - 1) /\ a[k] < b[k]

\* Cluster a is at least as good as cluster b: lower offset; then more
\* peers; then more ids; then the ids that come first lexicographically.
AtLeastAsGood(a, b) ==
    \/ a.epoch_offset < b.epoch_offset
    \/ /\ a.epoch_offset = b.epoch_offset
       /\ \/ Len(a.epoch_queue.peers) > Len(b.epoch_queue.peers)
          \/ /\ Len(a.epoch_queue.peers) = Len(b.epoch_queue.peers)
             /\ \/ Len(a.epoch_ids) > Len(b.epoch_ids)
                \/ /\ Len(a.epoch_ids) = Len(b.epoch_ids)
                   /\ (a.epoch_ids = b.epoch_ids \/ LexBefore(a.epoch_ids, b.epoch_ids))

\* Clusters that differ in their ids only, lists of the same length.
TieButIds(a, b) ==
    /\ a.epoch_offset = b.epoch_offset
    /\ Len(a.epoch_queue.peers) = Len(b.epoch_queue.peers)
    /\ Len(a.epoch_ids) = Len(b.epoch_ids)
    /\ a.epoch_ids /= b.epoch_ids

\* C16: the last element of sync_clusters, the one HistorySync polls, is at
\* least as good as every other cluster.
C16_LastIsBest ==
    \A i \in DOMAIN sync_clusters :
        AtLeastAsGood(sync_clusters[Len(sync_clusters)], sync_clusters[i])

\* C16 witness: after two responses were clustered two clusters are held,
\* and the best differs from the other one in its ids only.
C16_Witness ==
    /\ responses = 2
    /\ epoch_id_stream = <<>>
    /\ Len(sync_clusters) = 2
    /\ \E i \in DOMAIN sync_clusters :
         TieButIds(sync_clusters[Len(sync_clusters)], sync_clusters[i])

\* C17 (as claimed): no EpochIds is clustered while sync_clusters holds
\* MAX_CLUSTERS clusters or more. Clustering never removes a cluster, so it
\* is enough to look at the list the last EpochIds of a poll is clustered
\* into.
C17_NoClusteringAtMaxClusters ==
    [][(epoch_id_stream /= <<>> /\ epoch_id_stream' = <<>>) =>
          Len(drain(sync_clusters,
                    SubSeq(epoch_id_stream, 1, Len(epoch_id_stream) - 1))) < MAX_CLUSTERS]_vars


\* ------------------------------------------------------------- claims: Mempool
\* The sum of total_value over the transactions of the hashes.
RECURSIVE SumOfTotalValue(_, _)
SumOfTotalValue(transactions, hashes) ==
    IF hashes = {} THEN 0
    ELSE LET h == CHOOSE x \in hashes : TRUE
         IN total_value(transactions[h]) + SumOfTotalValue(transactions, hashes \ {h})

\* C18: for every sender with an entry in state_by_sender, total is the sum
\* of total_value over the transactions whose hashes are in txns.
C18_SenderTotalIsSum ==
    \A a \in DOMAIN mempool.state_by_sender :
        /\ mempool.state_by_sender[a].txns \subseteq DOMAIN mempool.transactions
        /\ mempool.state_by_sender[a].total =
               SumOfTotalValue(mempool.transactions, mempool.state_by_sender[a].txns)

\* C18 witness: get_transactions_for_block has taken one of two transactions
\* of a sender, whose entry holds the other one.
C18_Witness ==
    /\ mempool_op.op = "get_transactions_for_block"
    /\ Len(mempool_op.tx_vec) = 1
    /\ \E a \in DOMAIN mempool.state_by_sender :
         /\ mempool_op.tx_vec[1].sender = a
         /\ Cardinality(mempool.state_by_sender[a].txns) = 1
         /\ mempool.state_by_sender[a].total > 0


\* The values of a map, the elements of a sequence.
Values(m) == {m[k] : k \in DOMAIN m}

\* The serialized size of the transactions of a sequence together.
RECURSIVE SizeOf(_)
SizeOf(txs) == IF txs = <<>> THEN 0 ELSE Head(txs).serialized_size + SizeOf(Tail(txs))

\* a pays at least the fee per byte of b.
PaysAtLeast(a, b) == a.fee * b.serialized_size >= b.fee * a.serialized_size

\* tx_vec is the longest prefix of pending, taken in an order of descending
\* fee per byte, of size max_bytes at most: it is descending, no transaction
\* left pays more than one tx_vec, it fits, and a transaction that pays
\* most among those left does not fit after it.
LongestPrefixByFee(pending, tx_vec, max_bytes) ==
    /\ Values(tx_vec) \subseteq pending
    /\ \A i, j \in DOMAIN tx_vec :
          i < j => tx_vec[i] /= tx_vec[j] /\ PaysAtLeast(tx_vec[i], tx_vec[j])
    /\ \A t \in pending \ Values(tx_vec) :
          \A r \in Values(tx_vec) : PaysAtLeast(r, t)
    /\ SizeOf(tx_vec) <= max_bytes
    /\ \/ pending \ Values(tx_vec) = {}
       \/ \E t \in pending \ Values(tx_vec) :
            /\ \A o \in pending \ Values(tx_vec) : PaysAtLeast(t, o)
            /\ SizeOf(tx_vec) + t.serialized_size > max_bytes

\* C19: get_transactions_for_block(max_bytes) returns the longest prefix of
\* the pending transactions in descending fee-per-byte order whose size is
\* max_bytes at most; the transactions returned, and no other, are removed.
C19_ReturnsLongestPrefixByFee ==
    [][mempool_op'.op = "get_transactions_for_block" =>
          /\ LongestPrefixByFee(Values(mempool.transactions), mempool_op'.tx_vec,
                                mempool_op'.arg)
          /\ Values(mempool'.transactions) =
                Values(mempool.transactions) \ Values(mempool_op'.tx_vec)]_vars

\* C19 witness: of three pending transactions of one size with fee 1, 3 and
\* 2, the one of fee 3, then the one of fee 2 were returned for a max_bytes of
\* twice the size, and the one of fee 1 is left.
C19_Witness ==
    /\ mempool_op.op = "get_transactions_for_block"
    /\ mempool_op.arg = 2
    /\ Len(mempool_op.tx_vec) = 2
    /\ mempool_op.tx_vec[1].fee = 3 /\ mempool_op.tx_vec[1].serialized_size = 1
    /\ mempool_op.tx_vec[2].fee = 2 /\ mempool_op.tx_vec[2].serialized_size = 1
    /\ \E t \in Values(mempool.transactions) :
         /\ Values(mempool.transactions) = {t}
         /\ t.fee = 1 /\ t.serialized_size = 1


\* C20 (as claimed): for every transaction, put followed by remove of its
\* hash leaves the state as it was before the put, in all indices.
C20_PutRemoveRoundTrip ==
    [][mempool_op'.op = "put" =>
          remove(mempool', mempool_op'.arg.hash).s = mempool]_vars

\* C20 (amended): for every transaction that put accepts (it returns true:
\* the hash was not pending and no assertion on a staking set failed), put
\* followed by remove of its hash leaves the state as it was before the put,
\* in all indices.
C20_AcceptedPutRemoveRoundTrip ==
    [][(mempool_op'.op = "put" /\ mempool_op'.ok) =>
          /\ remove(mempool', mempool_op'.arg.hash).ok
          /\ remove(mempool', mempool_op'.arg.hash).s = mempool]_vars

\* C20 witness: put has accepted an unstake transaction while the staking
\* contract had another transaction pending; its signer is in
\* outgoing_stakers, and remove gives a state without either.
C20_Witness ==
    /\ mempool_op.op = "put"
    /\ mempool_op.ok
    /\ mempool_op.arg.data = "Unstake"
    /\ mempool_op.arg.signer \in mempool.outgoing_stakers
    /\ Cardinality(mempool.state_by_sender[StakingAddress].txns) = 2
    /\ remove(mempool, mempool_op.arg.hash).s.outgoing_stakers = {}
    /\ ~contains(remove(mempool, mempool_op.arg.hash).s, mempool_op.arg.hash)


\* The pending transactions of a kind of staking data signed by an address.
PendingOf(data, a) ==
    {tx \in Values(mempool.transactions) : tx.data = data /\ tx.signer = a}

\* An address is in the set if and only if it has signed exactly one
\* pending transaction of the kind, and it has signed two of none.
UniqueSigners(set, data) ==
    \A a \in Addresses :
        /\ a \in set <=> Cardinality(PendingOf(data, a)) = 1
        /\ Cardinality(PendingOf(data, a)) <= 1

\* C21: after verified puts and removes, each of the four staking sets holds
\* the addresses that have signed exactly one pending transaction of its
\* kind, and no address has signed two pending transactions of one kind.
C21_StakingUniqueness ==
    /\ UniqueSigners(mempool.outgoing_validators, "DeleteValidator")
    /\ UniqueSigners(mempool.outgoing_stakers, "Unstake")
    /\ UniqueSigners(mempool.creating_validators, "CreateValidator")
    /\ UniqueSigners(mempool.creating_stakers, "CreateStaker")

\* C21 witness: add_transaction has refused a second unstake transaction of
\* a signer whose first one is pending, next to the creation of a staker.
C21_Witness ==
    /\ mempool_op.op = "add_transaction"
    /\ ~mempool_op.ok
    /\ mempool_op.arg.data = "Unstake"
    /\ ~contains(mempool, mempool_op.arg.hash)
    /\ mempool.outgoing_stakers = {mempool_op.arg.signer}
    /\ mempool.creating_stakers = {mempool_op.arg.signer}
    /\ Cardinality(DOMAIN mempool.transactions) = 2


\* The transaction's validity window has passed at the height.
Expired(tx, block_height) ==
    block_height >= tx.validity_start_height + TRANSACTION_VALIDITY_WINDOW

\* C22 (as claimed): after mempool_update returns, no transaction that has
\* expired at block_number + 1 is pending (the aging pass removes the
\* oldest transactions first, up to the first valid one).
C22_NoExpiredAfterUpdate ==
    [][mempool_op'.op = "mempool_update" =>
          \A tx \in Values(mempool'.transactions) :
              ~Expired(tx, mempool_op'.arg.blockchain.block_number + 1)]_vars


\* The hashes pending for a sender, and the total_value of hashes together.
TxnsOf(s, a) == IF a \in DOMAIN s.state_by_sender THEN s.state_by_sender[a].txns ELSE {}
TotalOf(s, hashes) == SumOfTotalValue(s.transactions, hashes)

\* The orders a set of hashes can be examined in.
OrdersOf(hashes) ==
    {o \in [1..Cardinality(hashes) -> hashes] : \A i, j \in DOMAIN o : i /= j => o[i] /= o[j]}

\* The hashes retained when the hashes are examined in the order given and
\* each is retained if it fits under the balance with those retained so far.
RECURSIVE RetainedOf(_, _, _, _)
RetainedOf(s, order, kept, balance) ==
    IF order = <<>> THEN kept
    ELSE IF total_value(s.transactions[Head(order)]) + TotalOf(s, kept) <= balance
         THEN RetainedOf(s, Tail(order), kept \cup {Head(order)}, balance)
         ELSE RetainedOf(s, Tail(order), kept, balance)

\* The adopted pass, for one adopted transaction tx, the state before and
\* after it and the balance of the sender: a known tx is removed; for an
\* unknown tx of a sender whose pending total exceeds the balance, what is
\* left of the sender fits under the balance, and is what an examination of
\* the sender's transactions in some order retains.
AdoptedPass(before, after, tx, balance) ==
    /\ contains(before, tx.hash) => ~contains(after, tx.hash)
    /\ (/\ ~contains(before, tx.hash)
        /\ TxnsOf(before, tx.sender) /= {}
        /\ balance /= NoAccount
        /\ TotalOf(before, TxnsOf(before, tx.sender)) > balance)
       => /\ TxnsOf(after, tx.sender) \subseteq TxnsOf(before, tx.sender)
          /\ TotalOf(before, TxnsOf(after, tx.sender)) <= balance
          /\ \E order \in OrdersOf(TxnsOf(before, tx.sender)) :
                TxnsOf(after, tx.sender) = RetainedOf(before, order, {}, balance)

\* C23: mempool_update removes a known transaction of an adopted block, and
\* for an unknown one of a sender whose pending total exceeds the on-chain
\* balance it drops transactions of the sender so that what is left fits
\* under the balance and no dropped one fitted when it was examined.
C23_AdoptedPassDropsGreedily ==
    (mempool_op.op = "mempool_update" /\ mempool_op.arg.adopted /= <<>>) =>
        AdoptedPass(mempool_op.arg.before, mempool,
                    mempool_op.arg.adopted[1],
                    mempool_op.arg.blockchain.accounts[mempool_op.arg.adopted[1].sender])

\* C23 witness: an unknown transaction of a sender with two pending
\* transactions was adopted and the balance pays for one of them: one is
\* left, the other was dropped.
C23_Witness ==
    /\ mempool_op.op = "mempool_update"
    /\ mempool_op.arg.adopted /= <<>>
    /\ ~contains(mempool_op.arg.before, mempool_op.arg.adopted[1].hash)
    /\ Cardinality(TxnsOf(mempool_op.arg.before, mempool_op.arg.adopted[1].sender)) = 2
    /\ Cardinality(TxnsOf(mempool, mempool_op.arg.adopted[1].sender)) = 1
    /\ mempool_op.arg.blockchain.accounts[mempool_op.arg.adopted[1].sender] = 2


\* The latest two operations were a mempool_update that adopted the pending
\* transaction T, valid then, and removed it, and a mempool_update that
\* reverted T and put it back.
Reinstated ==
    /\ mempool_op.op = "mempool_update"
    /\ mempool_op.arg.earlier.updated
    /\ Len(mempool_op.arg.reverted) = 1
    /\ mempool_op.arg.earlier.adopted = mempool_op.arg.reverted
    /\ contains(mempool_op.arg.earlier.before, mempool_op.arg.reverted[1].hash)
    /\ is_valid_at(mempool_op.arg.reverted[1],
                   mempool_op.arg.earlier.blockchain.block_number + 1)
    /\ ~contains(mempool_op.arg.before, mempool_op.arg.reverted[1].hash)
    /\ contains(mempool, mempool_op.arg.reverted[1].hash)

\* Every transaction pending before the two updates is valid at the heights
\* of both.
NoneAgedOut ==
    \A tx \in Values(mempool_op.arg.earlier.before.transactions) :
        /\ is_valid_at(tx, mempool_op.arg.earlier.blockchain.block_number + 1)
        /\ is_valid_at(tx, mempool_op.arg.blockchain.block_number + 1)

Verified == {t \in Tasks : tasks[t].pc = "put"}

\* C25: add_transaction verifies and inserts atomically: while a call holds
\* the guard verify_tx returned, the state is the one the transaction was
\* verified against, verify_tx still accepts the transaction, and no other
\* call holds such a guard; so two concurrent calls never both succeed when
\* the second would be rejected after the first.
C25_VerifiesAndInsertsAtomically ==
    \A t \in Verified :
        /\ mempool = tasks[t].seen
        /\ verify_tx(mempool, tasks[t].arg.blockchain, tasks[t].arg.tx)
        /\ Verified = {t}

\* C25 happens: a call holds the guard verify_tx returned while another
\* add_transaction, of a transaction verify_tx accepts now and would reject
\* after the put of the first, waits for the state's lock.
C25_Witness ==
    \E t \in Verified, u \in Tasks :
        /\ tasks[u].op = "add_transaction"
        /\ tasks[u].pc = "verify_state"
        /\ ~Ready(u)
        /\ verify_tx(mempool, tasks[u].arg.blockchain, tasks[u].arg.tx)
        /\ ~verify_tx(put(mempool, tasks[t].arg.tx).s, tasks[u].arg.blockchain,
                      tasks[u].arg.tx)

\* The tasks inside a call of the Mempool.
Calling == {t \in Tasks : tasks[t].pc /= "idle"}

\* Every call waits for a lock that no step of anyone will free.
Deadlocked ==
    /\ Calling /= {}
    /\ \A t \in Calling : ~Ready(t)
    /\ ~(locks.blockchain.writer = {Pusher} /\ can_upgrade(locks.blockchain))

\* C27: a call that holds more than one of the three locks took them in the
\* order blockchain, state, filter (mempool_update: the blockchain's read lock
\* before the state's write lock), and concurrent mempool_update,
\* add_transaction and get_transactions_for_block calls do not deadlock.
C27_LockOrderAndNoDeadlock ==
    /\ \A t \in Tasks : \A i, j \in DOMAIN tasks[t].held :
           i < j => Rank(tasks[t].held[i]) < Rank(tasks[t].held[j])
    /\ ~Deadlocked

\* C27 happens: a mempool_update that holds the blockchain's read lock waits
\* for the state's lock, which an add_transaction holds together with the
\* blockchain's and the filter's, while the blockchain's writer waits too.
C27_Witness ==
    \E t, u \in Tasks :
        /\ tasks[t].op = "mempool_update"
        /\ tasks[t].held = <<"blockchain">>
        /\ ~Ready(t)
        /\ tasks[u].held = <<"blockchain", "state", "filter">>
        /\ locks.blockchain.writer = {Pusher}

\* ------------------------------------------------------------- claims: executor lifecycle
\* The executors spawned and not aborted.
Live(e) == e.spawned \ e.aborted

\* executor_handle is Some exactly when one spawned executor has not been
\* aborted, and it is the handle of that one.
Registered(e) == IF e.handle = <<>> THEN Live(e) = {} ELSE Live(e) = {e.handle[1]}

\* The call of task t ends in this step.
EndsCall(t) == tasks[t].pc /= "idle" /\ tasks'[t].pc = "idle"

\* C26: at most one executor exists: a start call while an executor is
\* registered spawns nothing and leaves the handle; a stop call aborts the
\* registered executor and clears the handle, or does nothing if there is
\* none; executor_handle is Some exactly when one spawned executor has not
\* been aborted.
C26_AtMostOneExecutor ==
    [][/\ Registered(executor')
       /\ \A t \in Tasks :
              /\ ( /\ EndsCall(t)
                   /\ tasks[t].op \in {"start_executor", "start_executor_with_txn_stream"}
                   /\ executor.handle /= <<>> )
                 => /\ executor'.handle = executor.handle
                    /\ executor'.spawned = executor.spawned
              /\ ( /\ EndsCall(t)
                   /\ tasks[t].op \in {"stop_executor", "stop_executor_without_unsuscribe"} )
                 => IF executor.handle = <<>>
                    THEN /\ executor'.handle = <<>>
                         /\ executor'.aborted = executor.aborted
                    ELSE /\ executor'.handle = <<>>
                         /\ executor'.aborted = executor.aborted \cup {executor.handle[1]}
      ]_vars

\* ------------------------------------------------------------- claims: two Networks
\* The NetworkEvents of one kind that side n has sent.
Sent(n, kind) == Len(SelectSeq(network.events[n], LAMBDA e : e = kind))

\* After the k-th close each side has sent k PeerLeft and lists no peer.
BothLeft(k) == \A n \in Nets : Sent(n, "PeerLeft") = k /\ ~network.peers[n]

\* After the k-th dial each side has sent k PeerJoined and lists the peer.
BothJoined(k) == \A n \in Nets : Sent(n, "PeerJoined") = k /\ network.peers[n]

\* C28: connections are properly closed: after close() on a joined peer each
\* of the two Networks eventually has sent exactly one PeerLeft for the other
\* and lists it no more; a later dial makes both send a new PeerJoined and
\* list the peer again.
C28_ConnectionsProperlyClosed ==
    /\ [](\A n \in Nets : Sent(n, "PeerLeft") <= network.closes)
    /\ \A k \in 1..MaxCloses :
           (network.closes = k /\ network.dials = k) ~> BothLeft(k)
    /\ \A k \in 1..MaxDials :
           (network.dials = k /\ network.closes = k - 1) ~> BothJoined(k)

\* ------------------------------------------------------------- claims: retries
\* The requests poll_next has just re-issued.
Reissued == {w \in sq'.pending_futures \ sq.pending_futures : w.num_tries > 1}

\* The failed requests that w re-issues.
FailedBefore(w) ==
    {r \in Range(sq.ready_to_run) : r.index = w.index /\ r.num_tries + 1 = w.num_tries}

\* C29: a request that yielded None is re-issued to a peer other than the one
\* that just failed, whenever the peer list holds another live peer; also
\* after dead peers were dropped or remove_peer was called.
C29_RetryOnAnotherPeer ==
    [][\A w \in Reissued : \A r \in FailedBefore(w) :
           (\E p \in Range(sq.peers) \cap alive : p /= r.agent) => w.agent /= r.agent
      ]_vars

\* ------------------------------------------------------------- claims: truncate_ids
\* The positions in ids_to_request of the ids whose enqueue index, counted
\* from the first id ever enqueued, is smaller than l.
EnqueuedBelow(q, l) ==
    {k \in DOMAIN q.ids_to_request : q.next_incoming_index + (k - 1) < l}

\* C30: after truncate_ids(len) the ids not yet started are exactly the ids
\* queued before whose enqueue index is smaller than len; the requests in
\* flight, the parked outputs, the peers and both index counters are as
\* before; with len at least the number of ids enqueued nothing changes.
C30_TruncateKeepsIdsBelowLen ==
    [][\A l \in 0..(MaxIds + 1) : TruncateIds(l) =>
           /\ DOMAIN sq'.ids_to_request = EnqueuedBelow(sq, l)
           /\ \A k \in EnqueuedBelow(sq, l) : sq'.ids_to_request[k] = sq.ids_to_request[k]
           /\ [sq' EXCEPT !.ids_to_request = <<>>] = [sq EXCEPT !.ids_to_request = <<>>]
           /\ l >= enqueued(sq) => sq' = sq
      ]_vars

\* C30 happens: truncate_ids has dropped an id and kept another, with
\* requests started before and still in flight.
C30_Witness ==
    /\ returned = "Truncated"
    /\ sq.ids_to_request /= <<>>
    /\ sq.next_incoming_index > 0
    /\ sq.pending_futures /= {}

\* ------------------------------------------------------------- claims: split_off
\* The step is a call of split_off: the cluster returned joined sync_clusters.
IsSplit == Len(sync_clusters') = Len(sync_clusters) + 1

\* split_off(at) turned the cluster before into the cluster after and returned
\* split, as the claim describes it.
SplitAt(before, after, split, at) ==
    LET E == before.epoch_ids IN
    /\ after.epoch_ids = SubSeq(E, 1, at)
    /\ after.epoch_offset = before.epoch_offset
    /\ split.epoch_ids = SubSeq(E, at + 1, Len(E))
    /\ split.epoch_offset = before.epoch_offset + at
    /\ split.epoch_queue.peers = before.epoch_queue.peers
    /\ split.history_queue.peers = before.epoch_queue.peers
    /\ after.epoch_ids \o split.epoch_ids = E
    /\ \A k \in DOMAIN after.epoch_queue.ids_to_request :
           after.epoch_queue.ids_to_request[k] \notin Range(split.epoch_ids)

\* C31: every call of split_off leaves the cluster with the ids before some
\* position at, at its offset, and returns a cluster with the ids from at on,
\* at offset + at, with the peers of the original; the two id lists
\* concatenated are the ids before the call, and no id from at on is left
\* waiting in the epoch queue of the original.
C31_SplitOffDividesTheCluster ==
    [][IsSplit =>
          \E at \in 0..Len(cluster.epoch_ids) :
              SplitAt(cluster, cluster', Last(sync_clusters'), at)]_vars

\* C31 witness: a cluster of SplitEpochs ids was split after some of its
\* requests had started, and the ids still waiting were dropped.
C31_Witness ==
    /\ sync_clusters /= <<>>
    /\ Len(cluster.epoch_ids) + Len(Last(sync_clusters).epoch_ids) = SplitEpochs
    /\ cluster.epoch_queue.next_incoming_index > 0
    /\ cluster.epoch_queue.next_incoming_index < SplitEpochs
    /\ cluster.epoch_queue.ids_to_request = <<>>

\* C37 (as claimed): once the cluster was split, every epoch it yields is one
\* of the epoch ids it kept.
C37_EmitsOnlyItsOwnEpochs ==
    [][(/\ sync_clusters /= <<>>
        /\ Len(cluster_emitted') = Len(cluster_emitted) + 1
        /\ Last(cluster_emitted').kind = "Ok")
           => Last(cluster_emitted').epoch.block.hash \in Range(cluster'.epoch_ids)]_vars

\* ------------------------------------------------------------- claims: pending_epochs
\* C32 (as claimed): pending_epochs never holds more than NUM_PENDING_EPOCHS
\* entries.
C32_PendingEpochsBounded == Len(cluster.pending_epochs) <= NUM_PENDING_EPOCHS

\* ------------------------------------------------------------- claims: history chunks
\* C33 (as claimed): the index on_history_chunk_received computes is always
\* inside pending_epochs (poll_next never panics on it), and every chunk a
\* pending epoch holds was requested for the macro block of that epoch.
C33_ChunkGoesToItsEpoch ==
    /\ ~panicked
    /\ \A i \in DOMAIN cluster.pending_epochs :
         \A k \in DOMAIN cluster.pending_epochs[i].history :
             cluster.pending_epochs[i].history[k][1]
                 = cluster.pending_epochs[i].block.block_number

\* ------------------------------------------------------------- claims: the indices
\* The hashes listed under the senders of state_by_sender.
ListedBySender(s) == UNION {s.state_by_sender[a].txns : a \in DOMAIN s.state_by_sender}

\* C34: transactions, transactions_by_fee, transactions_by_age and the txns
\* sets of state_by_sender hold the same hashes; a hash is listed under the
\* sender of its transaction only; no sender is kept with an empty txns set.
C34_IndicesAgree ==
    /\ DOMAIN mempool.transactions_by_fee = DOMAIN mempool.transactions
    /\ DOMAIN mempool.transactions_by_age = DOMAIN mempool.transactions
    /\ ListedBySender(mempool) = DOMAIN mempool.transactions
    /\ \A a \in DOMAIN mempool.state_by_sender :
         /\ mempool.state_by_sender[a].txns /= {}
         /\ \A hash \in mempool.state_by_sender[a].txns :
                hash \in DOMAIN mempool.transactions
                    => mempool.transactions[hash].sender = a

\* C34 witness: a transaction was removed and its sender keeps another one.
C34_Witness ==
    /\ mempool_op.op = "remove"
    /\ mempool_op.ok
    /\ \E tx \in Txs :
         /\ tx.hash = mempool_op.arg
         /\ tx.sender \in DOMAIN mempool.state_by_sender

\* ------------------------------------------------------------- claims: mempool_update
\* C35 (as claimed): no assertion of put or remove fails during
\* mempool_update.
C35_UpdateNeverPanics == mempool_op.op = "mempool_update" => ~mempool_op.panicked

\* The pending total of every sender whose account exists is at most the
\* balance of the account.
WithinBalance(s, blockchain) ==
    \A a \in DOMAIN s.state_by_sender :
        blockchain.accounts[a] /= NoAccount
            => s.state_by_sender[a].total <= blockchain.accounts[a]

\* C36 (as claimed): if the pending totals were within the balances of the
\* old chain (the one the operation before read) before a mempool_update,
\* they are within the balances of the new chain after it.
C36_TotalsWithinBalance ==
    [][(/\ mempool_op'.op = "mempool_update"
        /\ ~mempool_op'.panicked
        /\ \A old \in Chains(mempool_op) : WithinBalance(mempool, old))
           => WithinBalance(mempool', mempool_op'.arg.blockchain)]_vars

\* ------------------------------------------------------------- claims: cluster members
\* The response e reports every epoch id of the cluster c, each at the
\* absolute epoch number the cluster has it at.
ReportsAll(e, c) ==
    \A k \in DOMAIN c.epoch_ids :
        /\ c.epoch_offset + k - e.offset \in DOMAIN e.ids
        /\ e.ids[c.epoch_offset + k - e.offset] = c.epoch_ids[k]

\* C38 (as claimed): when a poll of HistorySync has clustered the responses
\* of the stream, the sender of each of them is a peer only of clusters
\* whose epoch ids the response reports, all of them.
C38_MembersReportedTheCluster ==
    [][\A n \in DOMAIN epoch_id_stream : \A i \in DOMAIN sync_clusters' :
           epoch_id_stream[n].sender \in Range(sync_clusters'[i].epoch_queue.peers)
               => ReportsAll(epoch_id_stream[n], sync_clusters'[i])]_vars

\* ---------------------------------------------------------------------------
\* claims: the peer list
\* ---------------------------------------------------------------------------

\* C39: whatever the interleaving of poll_next, add_ids, add_peer, remove_peer
\* and peers dying while requests are in flight, poll_next never panics: no
\* remainder is taken modulo an empty peer list, no peer is read outside the
\* list and no id is popped from an empty ids_to_request.
C39_NoModuloByEmptyPeers == returned /= "Panic"

\* A request failed after the last peer had left: the retry path ran with an
\* empty peer list and reported the id as an error.
C39_Witness ==
    /\ returned = "Err"
    /\ sq.peers = <<>>
    /\ sq.ids_to_request /= <<>>

\* ---------------------------------------------------------------------------
\* claims: progress of the queue
\* ---------------------------------------------------------------------------

\* C40: whenever poll_next has returned Pending while ids remain to be
\* requested and a live peer is in the list, at least one request is in
\* flight, so that a completion wakes the task; outputs parked behind an id
\* that was reported as Err do not fill the window.
C40_PendingHasRequestInFlight ==
    ( /\ returned = "Pending"
      /\ sq.ids_to_request /= <<>>
      /\ Range(sq.peers) \cap alive /= {} )
        => sq.pending_futures /= {}

====
